---- MODULE Spec2Model ----
(***************************************************************************)
(* State-machine model of the task pipeline of llimit: the task store      *)
(* (tasks, task_steps), the single-consumer work queue and the three       *)
(* handlers it drives (decomposition, step execution, reevaluation),       *)
(* together with the events the handlers emit.                             *)
(*                                                                         *)
(* Every handler is cut at its suspension points on an LLM or on the model *)
(* selector; the code between two suspension points is one action.  An     *)
(* exception raised by a handler puts the worker in the `except' position  *)
(* of WorkQueueService._process_queue_loop; the except block is one action.*)
(***************************************************************************)
EXTENDS Integers, Sequences, FiniteSets, TLC

VARIABLES
    tasks,      \* table `tasks': sequence of rows, the task id is the index
    steps,      \* table `task_steps': sequence of rows, the step id is the index
    queue,      \* WorkQueueService._queue (FIFO of work items)
    pc,         \* position of the consumer loop
    cur,        \* the work item the consumer loop is handling
    exc,        \* the exception travelling to the loop's except block
    events,     \* events[t]: the emit_event calls about task t, in call order
    connections,\* SseService._connections: user id -> list of connection ids
    conns,      \* the SseConnection objects created so far, by connection id
    emitted,    \* the emit_event calls that have run, in the order they ran
    emit_result,\* how the last emit_event call ended
    stream_pc,  \* position of get_completion_streamed: idle, streaming, finished
    upstream,   \* the text the upstream has not delivered yet
    deltas,     \* the content of the deltas delivered so far, in order
    buffer,     \* get_completion_streamed's local `buffer'
    in_tag,     \* its local `in_tag'
    current_tag_name, \* its local `current_tag_name'
    tag_content,\* its local `tag_content'
    chunks,     \* the StreamedChunks yielded so far, in order
    rt_pc, \* position of the re-embedding experiment: idle, parsed, reparsed
    rt_text, \* the assistant text T given to _parse_additional_data
    rt_parsed, \* the parse of T
    rt_embedded, \* the cleaned content with the segments of the data put back
    rt_reparsed, \* the parse of that text
    completions, \* the stream_completion calls made so far: id, events yielded, adapter chunks, position
    sel_pc, \* position of select_model_for_step: idle, evaluating, done
    sel_step, \* the step the selection is made for: content types of its files, required capabilities
    sel_models, \* the models left after the filters
    sel_evaluations, \* the evaluations of those models
    sel_outcome, \* how select_model_for_step ended: the model returned or the error raised
    task_costs, \* table `task_costs': sequence of rows (task_id, cost_usd)
    recorded, \* the add_cost_increment calls made so far, in order
    cost_error, \* the exception of the last cost calculation that raised
    cache, \* ModelCacheService._cache: not set, or the time of the fetch that filled it
    clock, \* the time, in days
    caller_pc, \* position of each get_all_models call: idle, fetching, returned, raised
    processing, \* WorkQueueService._processing
    processing_task, \* WorkQueueService._processing_task: 0 for None, else the loop task
    loop_pc, \* position of each task made for _process_queue_loop: none, created, get, handling, ended
    cancel_requested, \* the loop tasks whose cancel() was called
    waiting, \* number of items in WorkQueueService._queue
    stop_awaits, \* the loop tasks a stop_processing call is awaiting
    co_pc, \* position of each call of the SSE service in flight: none, map_acquire, map_wait, map_section, acquire, waiting, section, put_wait, del_acquire, del_wait, del_section, release
    co_op, \* the operation of each call: register, unregister, emit
    co_conn, \* the connection a register or unregister call is about
    co_lock, \* the lock _get_user_lock returned to each call (0: none)
    co_todo, \* emit_event: the connections still to be sent to
    user_locks, \* SseService._user_locks[user]: the lock in the map (0: no entry)
    locks_made, \* number of asyncio.Lock objects made for the user
    lock_holder, \* the call holding each lock (0: free)
    lk_connections, \* SseService._connections[user]: connection ids in list order
    lk_queued, \* number of events in each connection's queue
    running, \* the call the event loop is running (0: none, the loop is between callbacks)
    locks_lock, \* the call holding SseService._locks_lock (0: free)
    gen_pc, \* position of the event_generator of each connection: established, receive, yielded, ended, done
    db_task, \* the row of the task in table tasks, as committed
    db_steps, \* the task's rows in table task_steps, as committed, in insertion order
    persist_plan, \* the step definitions update_task_after_steps_generation was called with
    persist_pc \* position of the call: idle, update, insert, returned, raised

vars == <<tasks, steps, queue, pc, cur, exc, events,
          connections, conns, emitted, emit_result,
          stream_pc, upstream, deltas, buffer, in_tag, current_tag_name,
          tag_content, chunks,
          rt_pc, rt_text, rt_parsed, rt_embedded, rt_reparsed,
          completions,
          sel_pc, sel_step, sel_models, sel_evaluations, sel_outcome,
          task_costs, recorded, cost_error,
          cache, clock, caller_pc,
          processing, processing_task, loop_pc, cancel_requested, waiting, stop_awaits,
          co_pc, co_op, co_conn, co_lock, co_todo, user_locks, locks_made, lock_holder, lk_connections, lk_queued, running, locks_lock,
          gen_pc,
          db_task, db_steps, persist_plan, persist_pc>>

\* The variables of the task pipeline and of the event bus
taskVars == <<tasks, steps, queue, pc, cur, exc, events>>

sseVars == <<connections, conns, emitted, emit_result>>

streamVars == <<stream_pc, upstream, deltas, buffer, in_tag, current_tag_name,
                tag_content, chunks>>

parseVars == <<rt_pc, rt_text, rt_parsed, rt_embedded, rt_reparsed>>

completionVars == <<completions>>

selectVars == <<sel_pc, sel_step, sel_models, sel_evaluations, sel_outcome>>

costVars == <<task_costs, recorded, cost_error>>

cacheVars == <<cache, clock, caller_pc>>

workerVars == <<processing, processing_task, loop_pc, cancel_requested, waiting, stop_awaits>>

lockVars == <<co_pc, co_op, co_conn, co_lock, co_todo, user_locks, locks_made, lock_holder, lk_connections, lk_queued, running, locks_lock>>

generatorVars == <<gen_pc>>

persistVars == <<db_task, db_steps, persist_plan, persist_pc>>

\* What the task pipeline's actions leave alone
otherVars == <<sseVars, streamVars, parseVars, completionVars, selectVars, costVars, cacheVars, workerVars, lockVars, generatorVars, persistVars>>

\* What the event bus's actions leave alone
notSseVars == <<taskVars, streamVars, parseVars, completionVars, selectVars, costVars, cacheVars, workerVars, lockVars, generatorVars, persistVars>>

\* What the streamed completion's actions leave alone
notStreamVars == <<taskVars, sseVars, parseVars, completionVars, selectVars, costVars, cacheVars, workerVars, lockVars, generatorVars, persistVars>>

\* What the non-streaming parse's actions leave alone
notParseVars == <<taskVars, sseVars, streamVars, completionVars, selectVars, costVars, cacheVars, workerVars, lockVars, generatorVars, persistVars>>

\* What the completion stream service's actions leave alone
notCompletionVars == <<taskVars, sseVars, streamVars, parseVars, selectVars, costVars, cacheVars, workerVars, lockVars, generatorVars, persistVars>>

\* What the model selection's actions leave alone
notSelectVars == <<taskVars, sseVars, streamVars, completionVars, parseVars, costVars, cacheVars, workerVars, lockVars, generatorVars, persistVars>>

\* What the cost ledger's actions leave alone
notCostVars == <<taskVars, sseVars, streamVars, completionVars, parseVars, selectVars, cacheVars, workerVars, lockVars, generatorVars, persistVars>>

\* What the model cache's actions leave alone
notCacheVars == <<taskVars, sseVars, streamVars, completionVars, costVars, parseVars, selectVars, workerVars, lockVars, generatorVars, persistVars>>

\* What the actions of start_processing, stop_processing and the loop tasks leave alone
notWorkerVars == <<taskVars, sseVars, streamVars, cacheVars, completionVars, costVars, parseVars, selectVars, lockVars, generatorVars, persistVars>>

\* What the actions of the SSE service's calls, seen lock by lock, leave alone
notLockVars == <<taskVars, sseVars, streamVars, cacheVars, completionVars, costVars, parseVars, selectVars, workerVars, generatorVars, persistVars>>

\* What the actions of the event stream leave alone, besides the event bus
notGeneratorVars == <<taskVars, streamVars, cacheVars, completionVars, costVars, lockVars, parseVars, selectVars, workerVars, persistVars>>

\* What the statements of update_task_after_steps_generation leave alone
notPersistVars == <<taskVars, sseVars, streamVars, cacheVars, completionVars, costVars, generatorVars, lockVars, parseVars, selectVars, workerVars>>

---------------------------------------------------------------------------
(* Bounds of the model *)

MaxTasks == 2
MaxPlan == 3
MaxSteps == 4
MaxConns == 2
MaxEmits == 2
MaxDeltas == 3
MaxTags == 2
MaxCalls == 2
MaxChunks == 2
MaxIncrements == 3
MaxCallers == 3
MaxDays == 2
MaxLoops == 3
MaxItems == 2
MaxCoroutines == 3
MaxLocks == 3
MaxRegistered == 2
MaxQueued == 2
MaxEventsBefore == 3

---------------------------------------------------------------------------
(* Values *)

NULL == "NULL"

\* No step to select a model for, no end of the selection yet
NoStepDefinition == [content_types |-> {}, required_capabilities |-> {}]
NoOutcome == [kind |-> NULL, model_id |-> NULL, error |-> NULL]

\* ModelCacheService._cache is None
NoCache == [is_set |-> FALSE, timestamp |-> 0]

\* No parse made yet: empty content, empty dict
NoParse == [cleaned_content |-> "", additional_data |-> [k \in {} |-> ""]]
SET == "set"

Users == <<"u1", "u2">>

UserIds == {Users[i] : i \in 1..Len(Users)}

\* The user who sends the t-th task request: the users take turns.
Requester(t) == Users[((t - 1) % Len(Users)) + 1]

TaskStatus == {"decomposing", "in_progress", "completed", "failed"}

StepStatus == {"pending", "in_progress", "completed", "failed",
               "could_not_complete", "abandoned"}

StepType == {"normal", "reevaluate"}

DECOMPOSE_TASK == "decompose_task"
EXECUTE_STEP == "execute_step"
REEVALUATE_TASK == "reevaluate_task"

\* Exceptions the handlers raise, by class and message.
StepIdRequired == "Exception: step id is required"
NotNormalStep == "TaskStepExecutionError: reevaluate step passed to execute_step"
NotReevaluateStep == "TaskDecompositionError: not a reevaluate step"
CannotReevaluate == "TaskDecompositionError: steps before reevaluation are not completed"
DecompositionFailed == "TaskDecompositionError: steps data is missing or invalid"
NoModelsFound == "TaskModelSelectionError: no models found that meet requirements"
ScoringFailed == "TaskModelSelectionError: failed to evaluate models"
LlmFailed == "LlmError: completion failed"
NoStepOutput == "TaskStepExecutionError: no completed steps with output"

\* What the `output' and `failure_reason' tags of a step response can hold
\* (failure_reason after strip()).
Outputs == {"", "out"}
FailureReasons == {"", "cannot answer without browsing"}

\* The step lists a decomposition or a reevaluation can parse: an array of
\* step definitions, each normal or reevaluate; the empty array is accepted.
PlansUpTo(n) == UNION {[1..k -> StepType] : k \in 0..n}

NoItem == [task_id |-> 0, user_id |-> NULL, item_type |-> NULL, step_id |-> 0]

---------------------------------------------------------------------------
(* Work items *)

make_task_decomposition_item(tk, t) ==
    [task_id |-> t, user_id |-> tk[t].user_id,
     item_type |-> DECOMPOSE_TASK, step_id |-> 0]

make_task_step_execution_item(tk, t, s) ==
    [task_id |-> t, user_id |-> tk[t].user_id,
     item_type |-> EXECUTE_STEP, step_id |-> s]

make_task_reevaluation_item(tk, t, s) ==
    [task_id |-> t, user_id |-> tk[t].user_id,
     item_type |-> REEVALUATE_TASK, step_id |-> s]

---------------------------------------------------------------------------
(* Events *)

SseEvent(type, user, step, detail) ==
    [event_type |-> type, user_id |-> user, step_id |-> step, detail |-> detail]

\* SseService.emit_event never raises: a failing send is caught per connection.
emit_event(ev, t, e) == [ev EXCEPT ![t] = Append(@, e)]

---------------------------------------------------------------------------
(* Task store *)

StepIds(st) == 1..Len(st)

StepsOf(st, t) == {s \in StepIds(st) : st[s].task_id = t}

\* get_steps_by_task_id(..., exclude_abandoned=True)
get_steps_by_task_id(st, t) ==
    {s \in StepsOf(st, t) : st[s].status # "abandoned"}

NewTask(u) ==
    [user_id |-> u, title |-> NULL, status |-> "decomposing",
     completed_at |-> NULL, steps_generated |-> FALSE, output |-> NULL]

NewStep(t, n, type, planned) ==
    [task_id |-> t, step_number |-> n, status |-> "pending", step_type |-> type,
     model_name |-> NULL, output |-> NULL, failure_reason |-> NULL,
     started_at |-> NULL, completed_at |-> NULL, is_planned |-> planned]

InsertRows(st, t, first, plan) ==
    st \o [i \in 1..Len(plan) |-> NewStep(t, first + i - 1, plan[i], TRUE)]

\* update_task_after_steps_generation: the task row
TaskAfterStepsGeneration(tk, t) ==
    [tk EXCEPT ![t].title = SET, ![t].status = "in_progress",
               ![t].steps_generated = TRUE]

\* update_task_after_steps_generation: the step rows, numbered from 0
StepsAfterStepsGeneration(st, t, plan) == InsertRows(st, t, 0, plan)

\* Mutant: the UPDATE leaves the output column out.
update_task_final_status_NoOutput(tk, t, status, output) ==
    [tk EXCEPT ![t].status = status, ![t].completed_at = SET]

update_task_final_status(tk, t, status, output) ==
    [tk EXCEPT ![t].status = status, ![t].completed_at = SET,
               ![t].output = output]

\* Mutant: the step right after the reevaluate step is not abandoned.
mark_steps_as_abandoned_after_SkipFirst(st, t, after) ==
    [s \in StepIds(st) |->
        IF st[s].task_id = t /\ st[s].step_number > after + 1
        THEN [st[s] EXCEPT !.status = "abandoned"]
        ELSE st[s]]

mark_steps_as_abandoned_after(st, t, after) ==
    [s \in StepIds(st) |->
        IF st[s].task_id = t /\ st[s].step_number > after
        THEN [st[s] EXCEPT !.status = "abandoned"]
        ELSE st[s]]

\* Mutant: the regenerated steps are numbered from the reevaluate step's own
\* number.
FirstNewStepNumber_Same(after) == after

\* insert_new_steps_after_reevaluation: step_number = after_step_number + 1 + i
FirstNewStepNumber(after) == after + 1

insert_new_steps_after_reevaluation(st, t, after, plan) ==
    InsertRows(st, t, FirstNewStepNumber(after), plan)

\* create_reevaluation_step(task_id, step_number, prompt, is_planned=False):
\* the synthesized step is placed right after the step that could not complete.
create_reevaluation_step(st, t, after) ==
    Append(st, NewStep(t, after + 1, "reevaluate", FALSE))

---------------------------------------------------------------------------
(* Initial state: empty tables, empty queue, the consumer loop waiting, no
   event stream connected, no streamed completion requested *)

Init ==
    /\ tasks = <<>>
    /\ steps = <<>>
    /\ queue = <<>>
    /\ pc = "idle"
    /\ cur = NoItem
    /\ exc = NULL
    /\ events = <<>>
    /\ connections = [u \in UserIds |-> <<>>]
    /\ conns = <<>>
    /\ emitted = <<>>
    /\ emit_result = NULL
    /\ stream_pc = "idle"
    /\ upstream = ""
    /\ deltas = <<>>
    /\ buffer = ""
    /\ in_tag = FALSE
    /\ current_tag_name = NULL
    /\ tag_content = ""
    /\ chunks = <<>>
    /\ rt_pc = "idle"
    /\ rt_text = ""
    /\ rt_parsed = NoParse
    /\ rt_embedded = ""
    /\ rt_reparsed = NoParse
    /\ completions = <<>>
    /\ sel_pc = "idle"
    /\ sel_step = NoStepDefinition
    /\ sel_models = <<>>
    /\ sel_evaluations = <<>>
    /\ sel_outcome = NoOutcome
    /\ task_costs = <<>>
    /\ recorded = <<>>
    /\ cost_error = NULL
    /\ cache = NoCache
    /\ clock = 0
    /\ caller_pc = [c \in 1..MaxCallers |-> "idle"]
    /\ processing = FALSE
    /\ processing_task = 0
    /\ loop_pc = [l \in 1..MaxLoops |-> "none"]
    /\ cancel_requested = {}
    /\ waiting = 0
    /\ stop_awaits = {}
    /\ co_pc = [c \in 1..MaxCoroutines |-> "none"]
    /\ co_op = [c \in 1..MaxCoroutines |-> NULL]
    /\ co_conn = [c \in 1..MaxCoroutines |-> 0]
    /\ co_lock = [c \in 1..MaxCoroutines |-> 0]
    /\ co_todo = [c \in 1..MaxCoroutines |-> <<>>]
    /\ user_locks = 0
    /\ locks_made = 0
    /\ lock_holder = [l \in 1..MaxLocks |-> 0]
    /\ lk_connections = <<>>
    /\ lk_queued = [k \in 1..MaxRegistered |-> 0]
    /\ running = 0
    /\ locks_lock = 0
    /\ gen_pc = <<>>
    /\ db_task = NewTask(Users[1])
    /\ db_steps = <<>>
    /\ persist_plan = <<>>
    /\ persist_pc = "idle"

---------------------------------------------------------------------------
(* Task creation *)

CreateTask ==
    /\ Len(tasks) < MaxTasks
    /\ LET t == Len(tasks) + 1
           u == Requester(t)
           tk == Append(tasks, NewTask(u))
       IN /\ tasks' = tk
          /\ events' = Append(events, <<SseEvent("task.created", u, 0, NULL)>>)
          /\ queue' = Append(queue, make_task_decomposition_item(tk, t))
    /\ UNCHANGED <<steps, pc, cur, exc>>
    /\ UNCHANGED otherVars

---------------------------------------------------------------------------
(* The consumer loop: the except block *)

\* Mutant: the except block only logs the error.
FailedTasks_LogOnly(tk, item) == tk

\* Mutant: the except block sets the task to completed.
FailedTasks_Completed(tk, item) ==
    [tk EXCEPT ![item.task_id].status = "completed", ![item.task_id].completed_at = SET]

\* `except Exception' of _process_queue_loop: mark the task failed, then emit
\* task.failed to the item's user if get_task_by_id(task_id, user_id) finds it.
FailedTasks(tk, item) ==
    update_task_final_status(tk, item.task_id, "failed", NULL)

FailedEvents(ev, tk, item, e) ==
    IF tk[item.task_id].user_id = item.user_id
    THEN emit_event(ev, item.task_id, SseEvent("task.failed", item.user_id, 0, e))
    ELSE ev

\* Mutant: the follow-up items are put in front of the waiting items.
enqueue_many_Front(q, items) == items \o q

\* enqueue_many: `for item in items: await self._queue.put(item)'; the queue
\* is unbounded, so the puts do not suspend and the items go to the tail
\* together.
enqueue_many(q, items) == q \o items

\* Mutant: the failed item is put back on the queue to be tried again.
QueueAfterException_Retry(q, item) == Append(q, item)

\* The except block enqueues nothing: a failed item is not retried.
QueueAfterException(q, item) == q

HandleException ==
    /\ pc = "except"
    /\ tasks' = FailedTasks(tasks, cur)
    /\ events' = FailedEvents(events, tasks', cur, exc)
    /\ queue' = QueueAfterException(queue, cur)
    /\ pc' = "idle"
    /\ cur' = NoItem
    /\ exc' = NULL
    /\ UNCHANGED steps
    /\ UNCHANGED otherVars

---------------------------------------------------------------------------
(* DECOMPOSE: TaskDecompositionService.decompose_and_queue_task *)

\* The loop takes a DECOMPOSE item; the handler reads the task and waits for
\* the LLM (decompose_task).
DequeueDecompose ==
    /\ pc = "idle"
    /\ queue # <<>>
    /\ Head(queue).item_type = DECOMPOSE_TASK
    /\ cur' = Head(queue)
    /\ queue' = Tail(queue)
    /\ pc' = "decompose_llm"
    /\ UNCHANGED <<tasks, steps, exc, events>>
    /\ UNCHANGED otherVars

\* The step with the lowest step_number among the listed ones (ORDER BY
\* step_number ASC); rows with equal numbers come in an unspecified order.
FirstSteps(st, ids) ==
    {s \in ids : \A o \in ids : st[s].step_number <= st[o].step_number}

\* Mutant: an EXECUTE item for every step of the plan, in step order.
DecomposeNextItems_AllSteps(tk, st, t) ==
    LET ids == get_steps_by_task_id(st, t)
        order == CHOOSE f \in [1..Cardinality(ids) -> ids] :
                    \A i, j \in 1..Cardinality(ids) : i < j => f[i] < f[j]
    IN {[i \in 1..Cardinality(ids) |-> make_task_step_execution_item(tk, t, order[i])]}

\* Follow-up of a decomposition: one EXECUTE item for steps[0], if any.
DecomposeNextItems(tk, st, t) ==
    LET ids == get_steps_by_task_id(st, t)
    IN IF ids = {} THEN {<<>>}
       ELSE {<<make_task_step_execution_item(tk, t, s)>> : s \in FirstSteps(st, ids)}

\* The LLM answered and _parse_response accepted the answer.
DecomposeReturn ==
    /\ pc = "decompose_llm"
    /\ \E plan \in PlansUpTo(MaxPlan) :
         LET t == cur.task_id
             tk == TaskAfterStepsGeneration(tasks, t)
             st == StepsAfterStepsGeneration(steps, t, plan)
         IN /\ Len(steps) + Len(plan) <= MaxSteps
            /\ tasks' = tk
            /\ steps' = st
            /\ events' = emit_event(events, t,
                            SseEvent("task.steps_generated", cur.user_id, 0, NULL))
            /\ \E next_items \in DecomposeNextItems(tk, st, t) :
                   queue' = enqueue_many(queue, next_items)
    /\ pc' = "idle"
    /\ cur' = NoItem
    /\ UNCHANGED exc
    /\ UNCHANGED otherVars

\* The LLM call raised, or the answer has no steps, or a step of it is invalid.
DecomposeRaise ==
    /\ pc = "decompose_llm"
    /\ \E e \in {LlmFailed, DecompositionFailed} : exc' = e
    /\ pc' = "except"
    /\ UNCHANGED <<tasks, steps, queue, cur, events>>
    /\ UNCHANGED otherVars

---------------------------------------------------------------------------
(* EXECUTE: TaskStepExecutionService.execute_step *)

\* update_task_step(status=IN_PROGRESS, started_at=now)
StartStep(st, s) ==
    [st EXCEPT ![s].status = "in_progress", ![s].started_at = SET]

\* The loop takes an EXECUTE item; execute_step runs up to its first
\* suspension: the model selector when the step has no model yet, else the LLM.
DequeueExecute ==
    /\ pc = "idle"
    /\ queue # <<>>
    /\ Head(queue).item_type = EXECUTE_STEP
    /\ cur' = Head(queue)
    /\ queue' = Tail(queue)
    /\ LET s == Head(queue).step_id
       IN IF s = 0
          THEN /\ pc' = "except" /\ exc' = StepIdRequired
               /\ UNCHANGED steps
          ELSE IF steps[s].step_type = "reevaluate"
          THEN /\ pc' = "except" /\ exc' = NotNormalStep
               /\ UNCHANGED steps
          ELSE IF steps[s].model_name = NULL
          THEN /\ pc' = "execute_select" /\ UNCHANGED <<exc, steps>>
          ELSE /\ pc' = "execute_llm" /\ UNCHANGED exc
               /\ steps' = StartStep(steps, s)
    /\ UNCHANGED <<tasks, events>>
    /\ UNCHANGED otherVars

\* select_model_for_step returned an evaluation: the model is stored and the
\* step goes in_progress; execute_step then waits for the completion.
SelectReturn ==
    /\ pc = "execute_select"
    /\ steps' = StartStep([steps EXCEPT ![cur.step_id].model_name = SET], cur.step_id)
    /\ pc' = "execute_llm"
    /\ UNCHANGED <<tasks, queue, cur, exc, events>>
    /\ UNCHANGED otherVars

\* select_model_for_step raised: no candidate model is left after the
\* filters, or the scoring service failed.  execute_step does not catch it.
SelectRaise ==
    /\ pc = "execute_select"
    /\ \E e \in {NoModelsFound, ScoringFailed} : exc' = e
    /\ pc' = "except"
    /\ UNCHANGED <<tasks, steps, queue, cur, events>>
    /\ UNCHANGED otherVars

\* get_completion (or loading files, or pricing) raised while the step is
\* in_progress.  execute_step does not catch it.
ExecuteRaise ==
    /\ pc = "execute_llm"
    /\ exc' = LlmFailed
    /\ pc' = "except"
    /\ UNCHANGED <<tasks, steps, queue, cur, events>>
    /\ UNCHANGED otherVars

\* update_task_step(status, response_content, output, failure_reason, completed_at)
FinishStep(st, s, output, failure_reason) ==
    [st EXCEPT ![s].status = IF failure_reason # "" THEN "could_not_complete"
                             ELSE "completed",
               ![s].output = output,
               ![s].failure_reason = IF failure_reason # "" THEN failure_reason ELSE @,
               ![s].completed_at = SET]

\* Mutant: the follow-up item goes to the step after the next one.
NextSteps_SkipOne(st, t, n) ==
    {s \in get_steps_by_task_id(st, t) : st[s].step_number = n + 2}

\* _get_next_work_items_and_check_if_done: the steps numbered completed + 1
NextSteps(st, t, n) ==
    {s \in get_steps_by_task_id(st, t) : st[s].step_number = n + 1}

NextItem(tk, st, t, s) ==
    IF st[s].step_type = "reevaluate"
    THEN make_task_reevaluation_item(tk, t, s)
    ELSE make_task_step_execution_item(tk, t, s)

\* is_done = all(s.status == COMPLETED for s in all_steps)
IsDone(st, t) ==
    \A s \in get_steps_by_task_id(st, t) : st[s].status = "completed"

\* _handle_task_completion: the completed normal steps with a non-empty output
CompletedStepsWithOutput(st, t) ==
    {s \in get_steps_by_task_id(st, t) :
        /\ st[s].status = "completed"
        /\ st[s].step_type = "normal"
        /\ st[s].output \notin {NULL, ""}}

\* completed_steps_with_output[-1]: the last one in step_number order
LastSteps(st, ids) ==
    {s \in ids : \A o \in ids : st[o].step_number <= st[s].step_number}

\* The completion returned: the step is classified and stored,
\* task.step_completed is emitted, and the follow-up is decided.
ExecuteReturn ==
    /\ pc = "execute_llm"
    /\ \E output \in Outputs, failure_reason \in FailureReasons :
         LET t == cur.task_id
             s == cur.step_id
             st == FinishStep(steps, s, output, failure_reason)
             ev == emit_event(events, t,
                      SseEvent("task.step_completed", tasks[t].user_id, s, NULL))
         IN IF failure_reason # ""
            THEN \* _handle_step_failure
                 /\ steps' = create_reevaluation_step(st, t, st[s].step_number)
                 /\ queue' = enqueue_many(queue,
                                <<make_task_reevaluation_item(tasks, t, Len(st) + 1)>>)
                 /\ events' = ev
                 /\ pc' = "idle" /\ cur' = NoItem
                 /\ UNCHANGED <<tasks, exc>>
            ELSE IF NextSteps(st, t, st[s].step_number) # {}
            THEN /\ steps' = st
                 /\ \E n \in NextSteps(st, t, st[s].step_number) :
                       queue' = enqueue_many(queue, <<NextItem(tasks, st, t, n)>>)
                 /\ events' = ev
                 /\ pc' = "idle" /\ cur' = NoItem
                 /\ UNCHANGED <<tasks, exc>>
            ELSE IF ~IsDone(st, t)
            THEN /\ steps' = st
                 /\ events' = ev
                 /\ pc' = "idle" /\ cur' = NoItem
                 /\ UNCHANGED <<tasks, queue, exc>>
            ELSE IF CompletedStepsWithOutput(st, t) = {}
            THEN /\ steps' = st
                 /\ events' = ev
                 /\ pc' = "except" /\ exc' = NoStepOutput
                 /\ UNCHANGED <<tasks, queue, cur>>
            ELSE /\ steps' = st
                 /\ \E l \in LastSteps(st, CompletedStepsWithOutput(st, t)) :
                       tasks' = update_task_final_status(tasks, t, "completed",
                                                         st[l].output)
                 /\ events' = emit_event(ev, t,
                                 SseEvent("task.completed", tasks[t].user_id, 0, NULL))
                 /\ pc' = "idle" /\ cur' = NoItem
                 /\ UNCHANGED <<queue, exc>>
    /\ UNCHANGED otherVars

---------------------------------------------------------------------------
(* Items of any other kind *)

\* _process_queue_loop has a branch for DECOMPOSE_TASK and one for
\* EXECUTE_STEP.  An item of another kind matches neither: next_items stays
\* empty and the loop goes on to the next item.
DequeueOther ==
    /\ pc = "idle"
    /\ queue # <<>>
    /\ Head(queue).item_type \notin {DECOMPOSE_TASK, EXECUTE_STEP}
    /\ queue' = Tail(queue)
    /\ UNCHANGED <<tasks, steps, pc, cur, exc, events>>
    /\ UNCHANGED otherVars

---------------------------------------------------------------------------
(* REEVALUATE: TaskDecompositionService.reevaluate_and_queue_task *)

\* Mutant: the precondition is not checked.
IncompleteSteps_Unchecked(st, t, k) == {}

\* The non-abandoned steps before the reevaluate step that are not completed
IncompleteSteps(st, t, k) ==
    {s \in get_steps_by_task_id(st, t) :
        /\ st[s].step_number < st[k].step_number
        /\ st[s].status # "completed"}

\* The loop hands a REEVALUATE item to reevaluate_and_queue_task, which runs
\* up to its suspension on the LLM (reevaluate_task).
DequeueReevaluate ==
    /\ pc = "idle"
    /\ queue # <<>>
    /\ Head(queue).item_type = REEVALUATE_TASK
    /\ cur' = Head(queue)
    /\ queue' = Tail(queue)
    /\ LET k == Head(queue).step_id
           t == Head(queue).task_id
       IN IF steps[k].step_type # "reevaluate"
          THEN /\ pc' = "except" /\ exc' = NotReevaluateStep
               /\ UNCHANGED steps
          ELSE IF IncompleteSteps(steps, t, k) # {}
          THEN /\ pc' = "except" /\ exc' = CannotReevaluate
               /\ UNCHANGED steps
          ELSE /\ pc' = "reevaluate_llm" /\ UNCHANGED exc
               /\ steps' = StartStep(steps, k)
    /\ UNCHANGED <<tasks, events>>
    /\ UNCHANGED otherVars

\* update_task_step(status=COMPLETED, completed_at=now) of the reevaluate step
CompleteReevaluateStep(st, k) ==
    [st EXCEPT ![k].status = "completed", ![k].completed_at = SET]

\* The rows insert_new_steps_after_reevaluation created, in list order
NewStepIds(before, after) == (Len(before) + 1)..Len(after)

\* Follow-up of a reevaluation: one EXECUTE item for new_steps[0], if any.
ReevaluateNextItems(tk, t, new) ==
    IF new = {} THEN <<>>
    ELSE <<make_task_step_execution_item(tk, t, CHOOSE s \in new : \A o \in new : s <= o)>>

\* The LLM answered and _parse_reevaluation_response accepted the answer.
ReevaluateReturn ==
    /\ pc = "reevaluate_llm"
    /\ \E plan \in PlansUpTo(MaxPlan) :
         LET t == cur.task_id
             k == cur.step_id
             st1 == CompleteReevaluateStep(steps, k)
             st2 == mark_steps_as_abandoned_after(st1, t, st1[k].step_number)
             st3 == insert_new_steps_after_reevaluation(st2, t, st1[k].step_number, plan)
         IN /\ Len(steps) + Len(plan) <= MaxSteps
            /\ steps' = st3
            /\ events' = emit_event(
                            emit_event(events, t,
                               SseEvent("task.step_completed", cur.user_id, k, NULL)),
                            t, SseEvent("task.steps_regenerated", cur.user_id, 0, NULL))
            /\ queue' = enqueue_many(queue,
                           ReevaluateNextItems(tasks, t, NewStepIds(st2, st3)))
    /\ pc' = "idle"
    /\ cur' = NoItem
    /\ UNCHANGED <<tasks, exc>>
    /\ UNCHANGED otherVars

\* The LLM call raised, or the answer has no steps, or a step of it is invalid.
ReevaluateRaise ==
    /\ pc = "reevaluate_llm"
    /\ \E e \in {LlmFailed, DecompositionFailed} : exc' = e
    /\ pc' = "except"
    /\ UNCHANGED <<tasks, steps, queue, cur, events>>
    /\ UNCHANGED otherVars

---------------------------------------------------------------------------
(* Specifications *)

\* The program: task creation and the consumer loop as it is written.
Next ==
    \/ CreateTask
    \/ DequeueDecompose
    \/ DecomposeReturn
    \/ DecomposeRaise
    \/ DequeueExecute
    \/ SelectReturn
    \/ SelectRaise
    \/ ExecuteReturn
    \/ ExecuteRaise
    \/ DequeueOther
    \/ HandleException

Spec == Init /\ [][Next]_vars

\* The steps of the consumer loop and of the handler it is running.
Worker ==
    \/ DequeueDecompose
    \/ DecomposeReturn
    \/ DecomposeRaise
    \/ DequeueExecute
    \/ SelectReturn
    \/ SelectRaise
    \/ ExecuteReturn
    \/ ExecuteRaise
    \/ DequeueOther
    \/ HandleException

\* The program with a consumer loop that is scheduled whenever it can run and
\* with LLM and selector calls that return or raise.
FairSpec == Spec /\ WF_vars(Worker)

\* The program with REEVALUATE items also handed to
\* reevaluate_and_queue_task, the handler the items are made for.
NextR ==
    \/ Next
    \/ DequeueReevaluate
    \/ ReevaluateReturn
    \/ ReevaluateRaise

SpecR == Init /\ [][NextR]_vars

---------------------------------------------------------------------------
(* Properties *)

TaskIds == 1..Len(tasks)

InProgressSteps(t) ==
    {s \in StepsOf(steps, t) : steps[s].status = "in_progress"}

\* C1: in every reachable state, no task has two steps with status
\* in_progress, whatever DECOMPOSE, EXECUTE and REEVALUATE items the loop
\* handles and whichever handlers raise.
C1_AtMostOneInProgress ==
    \A t \in TaskIds : Cardinality(InProgressSteps(t)) <= 1

\* A handler raised and left its step in_progress in a task that has other
\* steps, while a step of another task is in_progress too.
C1_Witness ==
    \E t \in TaskIds, o \in TaskIds :
        /\ t # o
        /\ tasks[t].status = "failed"
        /\ InProgressSteps(t) # {}
        /\ Cardinality(StepsOf(steps, t)) >= 2
        /\ InProgressSteps(o) # {}

\* The steps of task t that have gone in_progress at some time (started_at is
\* set) and are not abandoned in table st2.
StartedSteps(st, st2, t) ==
    {s \in StepsOf(st, t) : st[s].started_at # NULL /\ st2[s].status # "abandoned"}

BecomesInProgress(s) ==
    /\ steps'[s].status = "in_progress"
    /\ (s \in StepIds(steps) => steps[s].status # "in_progress")

\* C2: whenever a step is set in_progress (by execute_step or by
\* reevaluate_and_queue_task), its step_number is greater than the
\* step_number of every non-abandoned step of the task that was set
\* in_progress before, the step itself included.
C2_InProgressOrderIncreasing ==
    [][\A s \in StepIds(steps') :
          BecomesInProgress(s) =>
             \A o \in StartedSteps(steps, steps', steps'[s].task_id) :
                 steps[o].step_number < steps'[s].step_number]_vars

\* A reevaluate step and a later step regenerated by it have both been
\* started, after a first normal step.
C2_Witness ==
    \E a \in StepIds(steps), b \in StepIds(steps), c \in StepIds(steps) :
        /\ steps[a].task_id = steps[b].task_id
        /\ steps[b].task_id = steps[c].task_id
        /\ steps[a].step_type = "normal" /\ steps[a].status = "completed"
        /\ steps[b].step_type = "reevaluate" /\ steps[b].status = "completed"
        /\ steps[c].step_type = "normal" /\ steps[c].started_at # NULL
        /\ steps[a].step_number < steps[b].step_number
        /\ steps[b].step_number < steps[c].step_number

ReevaluationSucceeds(k) ==
    /\ steps[k].step_type = "reevaluate"
    /\ steps[k].status = "in_progress"
    /\ steps'[k].status = "completed"

\* C3: when reevaluate_and_queue_task succeeds for the reevaluate step
\* numbered K, every step of the task that existed before with
\* step_number > K is abandoned; and an abandoned step never changes status.
C3_AbandonedAfterReevaluation ==
    [][/\ \A k \in StepIds(steps) :
             ReevaluationSucceeds(k) =>
                \A s \in StepsOf(steps, steps[k].task_id) :
                    steps[s].step_number > steps[k].step_number
                       => steps'[s].status = "abandoned"
       /\ \A s \in StepIds(steps) :
             steps[s].status = "abandoned" => steps'[s].status = "abandoned"]_vars

\* A step was abandoned by a reevaluation and a step regenerated by that
\* reevaluation has been executed since.
C3_Witness ==
    \E s \in StepIds(steps), n \in StepIds(steps) :
        /\ steps[s].task_id = steps[n].task_id
        /\ steps[s].status = "abandoned"
        /\ n > s
        /\ steps[n].status = "completed"

TaskFailedEvent(item, e) == SseEvent("task.failed", item.user_id, 0, e)

ExceptionHandled ==
    /\ pc = "except"
    /\ pc' # "except"

\* C4: when the handler of a dequeued item raises, the loop sets the item's
\* task to failed, emits task.failed with the error to the task's user,
\* leaves the queued items in the queue and waits for the next item; and the
\* loop goes on until every enqueued item has been taken and handled.
C4_FailureHandledLoopGoesOn ==
    /\ [][ExceptionHandled =>
             /\ tasks'[cur.task_id].status = "failed"
             /\ cur.user_id = tasks[cur.task_id].user_id
             /\ events'[cur.task_id] =
                   Append(events[cur.task_id], TaskFailedEvent(cur, exc))
             /\ queue' = queue
             /\ pc' = "idle"]_vars
    /\ <>[](queue = <<>> /\ pc = "idle")

\* A task has failed and the loop is now handling an item of another task.
C4_Witness ==
    \E t \in TaskIds :
        /\ tasks[t].status = "failed"
        /\ Len(events[t]) > 0
        /\ events[t][Len(events[t])].event_type = "task.failed"
        /\ pc \in {"decompose_llm", "execute_select", "execute_llm"}
        /\ cur.task_id # t

\* C5: when an exception escapes the execution of a normal step that was set
\* in_progress, the except block leaves the step failed and the task failed
\* and emits task.failed; the step is not left in_progress.
C5_RaisingStepEndsFailed ==
    [][(/\ ExceptionHandled
        /\ cur.item_type = EXECUTE_STEP
        /\ cur.step_id # 0
        /\ steps[cur.step_id].status = "in_progress")
       => /\ steps'[cur.step_id].status = "failed"
          /\ tasks'[cur.task_id].status = "failed"
          /\ events'[cur.task_id] =
                Append(events[cur.task_id], TaskFailedEvent(cur, exc))]_vars

InQueue(type, s) ==
    \E i \in 1..Len(queue) : queue[i].item_type = type /\ queue[i].step_id = s

InHandler(type, s) ==
    pc # "idle" /\ cur.item_type = type /\ cur.step_id = s

HasEvent(t, type) ==
    \E i \in 1..Len(events[t]) : events[t][i].event_type = type

\* C6: a normal step that ended could_not_complete has an unplanned
\* reevaluate step right after it with a REEVALUATE item that is waiting in
\* the queue or being handled, or else the reevaluation has been carried out:
\* task.steps_regenerated was emitted and the task is not failed.
C6_CouldNotCompleteIsReevaluated ==
    \A s \in StepIds(steps) :
        steps[s].status = "could_not_complete" =>
           \E r \in StepsOf(steps, steps[s].task_id) :
              /\ steps[r].step_type = "reevaluate"
              /\ ~steps[r].is_planned
              /\ steps[r].step_number = steps[s].step_number + 1
              /\ \/ InQueue(REEVALUATE_TASK, r)
                 \/ InHandler(REEVALUATE_TASK, r)
                 \/ /\ HasEvent(steps[s].task_id, "task.steps_regenerated")
                    /\ tasks[steps[s].task_id].status # "failed"

\* C7: a model selection that finds no candidate model never reaches the
\* loop's except block and never fails the task: execute_step answers it with
\* an unplanned reevaluate step.
C7_NoModelIsReevaluated ==
    /\ ~(pc = "except" /\ exc = NoModelsFound)
    /\ \A t \in TaskIds : \A i \in 1..Len(events[t]) :
          ~(events[t][i].event_type = "task.failed"
            /\ events[t][i].detail = NoModelsFound)

ReevaluateDispatched ==
    /\ pc = "idle"
    /\ pc' # "idle"
    /\ cur'.item_type = REEVALUATE_TASK
    /\ steps[cur'.step_id].step_type = "reevaluate"

UncompletedBefore(k) ==
    {s \in StepsOf(steps, steps[k].task_id) :
        /\ steps[s].status \notin {"abandoned", "completed"}
        /\ steps[s].step_number < steps[k].step_number}

\* C8: a reevaluate step is set in_progress only when every non-abandoned
\* step of its task with a smaller step_number is completed; a REEVALUATE
\* item for a reevaluate step with an uncompleted earlier step raises the
\* decomposition error and changes no step.
C8_ReevaluateOnlyAfterCompletedSteps ==
    [][/\ \A k \in StepIds(steps) :
             (steps[k].step_type = "reevaluate" /\ BecomesInProgress(k))
                => UncompletedBefore(k) = {}
       /\ (ReevaluateDispatched /\ UncompletedBefore(cur'.step_id) # {})
             => /\ pc' = "except"
                /\ exc' = CannotReevaluate
                /\ steps' = steps]_vars

\* One task was failed by a refused reevaluation while a reevaluate step of
\* another task, with a completed step before it, is in_progress.
C8_Witness ==
    \E t \in TaskIds, k \in StepIds(steps) :
        /\ steps[k].task_id # t
        /\ steps[k].step_type = "reevaluate"
        /\ steps[k].status = "in_progress"
        /\ \E s \in StepsOf(steps, steps[k].task_id) :
              steps[s].step_number < steps[k].step_number
        /\ \E i \in 1..Len(events[t]) :
              /\ events[t][i].event_type = "task.failed"
              /\ events[t][i].detail = CannotReevaluate

\* C9: a task that is completed or failed keeps that status, and a task that
\* is in_progress never goes back to decomposing.
C9_TaskStatusMovesForward ==
    [][\A t \in TaskIds :
          /\ tasks[t].status \in {"completed", "failed"}
                => tasks'[t].status = tasks[t].status
          /\ tasks[t].status = "in_progress"
                => tasks'[t].status # "decomposing"]_vars

\* One task is completed and another was failed after its decomposition had
\* moved it to in_progress (it has more events than task.created and
\* task.failed).
C9_Witness ==
    \E t \in TaskIds, o \in TaskIds :
        /\ tasks[t].status = "completed"
        /\ tasks[o].status = "failed"
        /\ Len(events[o]) > 2

\* C10: a task has an output exactly when its status is completed.
C10_OutputIffCompleted ==
    \A t \in TaskIds :
        (tasks[t].output # NULL) <=> (tasks[t].status = "completed")

\* A completed task with its output beside a failed task without one.
C10_Witness ==
    \E t \in TaskIds, o \in TaskIds :
        /\ tasks[t].status = "completed"
        /\ tasks[t].output = "out"
        /\ tasks[o].status = "failed"
        /\ tasks[o].output = NULL

---------------------------------------------------------------------------
(* The event bus: EventFilter, SseConnection, SseService *)

\* The task events of the model: task.created carries no metadata, the other
\* events carry the id of their task (a set of <<key, value>> pairs).
TaskEvents ==
    {[event_type |-> "task.created", metadata |-> {}],
     [event_type |-> "task.step_completed", metadata |-> {<<"task_id", "t1">>}],
     [event_type |-> "task.completed", metadata |-> {<<"task_id", "t2">>}]}

\* event.metadata.get(key): None when the key is absent
MetadataGet(metadata, key) ==
    IF \E p \in metadata : p[1] = key
    THEN (CHOOSE p \in metadata : p[1] = key)[2]
    ELSE NULL

\* EventFilter(event_types, metadata_filters).  has_event_types is FALSE for
\* event_types=None; metadata_filters is a set of <<key, allowed values>>
\* pairs, empty for metadata_filters=None (`metadata_filters or {}').
EventFilter(has_event_types, event_types, metadata_filters) ==
    [has_event_types |-> has_event_types, event_types |-> event_types,
     metadata_filters |-> metadata_filters]

\* The filters a connection is registered with: none; an empty event_types
\* list; one event type; a metadata key with an empty list; a metadata key
\* with one allowed value.
EventFilters ==
    {EventFilter(FALSE, {}, {}),
     EventFilter(TRUE, {}, {}),
     EventFilter(TRUE, {"task.completed"}, {}),
     EventFilter(FALSE, {}, {<<"task_id", {}>>}),
     EventFilter(FALSE, {}, {<<"task_id", {"t1"}>>})}

\* EventFilter.matches, first test
TypeAccepted(f, e) ==
    ~(f.has_event_types /\ e.event_type \notin f.event_types)

\* EventFilter.matches
matches(f, e) ==
    IF ~TypeAccepted(f, e) THEN FALSE
    ELSE \A p \in f.metadata_filters :
            p[2] # {} =>
               LET event_value == MetadataGet(e.metadata, p[1])
               IN ~(event_value # NULL /\ event_value \notin p[2])

\* SseConnection(user_id, event_filter).  failed and since are not fields of
\* the object: they record the sends to it that raised and how many
\* emit_event calls had run when it was registered.
SseConnection(u, f, now) ==
    [user_id |-> u, filter |-> f, queue |-> <<>>, received |-> <<>>,
     failed |-> {}, since |-> now]

\* What is left of a connection after unregister_connection: its event stream
\* has ended and nothing refers to the object any more.
ClosedConnection(u) ==
    [user_id |-> u, filter |-> EventFilter(FALSE, {}, {}), queue |-> <<>>,
     received |-> <<>>, failed |-> {}, since |-> 0]

Registered(c) ==
    \E i \in 1..Len(connections[conns[c].user_id]) :
        connections[conns[c].user_id][i] = c

RegisteredConnections == {c \in 1..Len(conns) : Registered(c)}

\* Mutant: the connection's queue hands out the newest event first.
Enqueue_Front(q, e) == <<e>> \o q

\* asyncio.Queue.put on the connection's unbounded queue
Enqueue(q, e) == Append(q, e)

\* SseConnection.send
send(cs, c, e) ==
    IF matches(cs[c].filter, e)
    THEN [cs EXCEPT ![c].queue = Enqueue(@, e)]
    ELSE cs

\* Mutant: no try/except around send, the first error ends the loop.
AfterSendError_Propagate(rest) == <<>>

\* `except Exception' in the loop of emit_event: the error is printed and the
\* loop goes on with the connections that are left.
AfterSendError(rest) == rest

\* The loop of emit_event over the user's connections, in list order; the
\* sends to the connections in `failing' raise.
RECURSIVE SendToAll(_, _, _, _)
SendToAll(cs, list, e, failing) ==
    IF list = <<>> THEN cs
    ELSE LET c == Head(list)
         IN IF c \in failing
            THEN SendToAll([cs EXCEPT ![c].failed = @ \cup {e.event_id}],
                           AfterSendError(Tail(list)), e, failing)
            ELSE SendToAll(send(cs, c, e), Tail(list), e, failing)

\* register_connection(user_id, event_filter)
RegisterConnection ==
    /\ Len(conns) < MaxConns
    /\ \E u \in UserIds, f \in EventFilters :
         /\ conns' = Append(conns, SseConnection(u, f, Len(emitted)))
         /\ connections' = [connections EXCEPT ![u] = Append(@, Len(conns) + 1)]
    /\ UNCHANGED <<emitted, emit_result>>
    /\ UNCHANGED notSseVars

\* unregister_connection(connection): the connection is filtered out of the
\* user's list.
UnregisterConnection ==
    /\ \E c \in 1..Len(conns) :
         /\ Registered(c)
         /\ LET Other(x) == x # c
            IN connections' = [connections EXCEPT
                                  ![conns[c].user_id] = SelectSeq(@, Other)]
         /\ conns' = [conns EXCEPT ![c] = ClosedConnection(conns[c].user_id)]
    /\ UNCHANGED <<emitted, emit_result>>
    /\ UNCHANGED notSseVars

ConnectionsOf(u) == {connections[u][i] : i \in 1..Len(connections[u])}

\* How emit_event ends when the sends to the connections in `failing' raise:
\* every Exception is caught inside the loop, so the call returns.
EmitResult(list, failing) == "returned"

\* The user the events of the model are emitted for; the connections belong
\* to this user or to another one.
EmitUser == Users[1]

\* Mutant: the event goes to the connections of every user.
connections_get_AllUsers(cm, u) == cm[Users[1]] \o cm[Users[2]]

\* connections = self._connections.get(user_id, [])
connections_get(cm, u) == cm[u]

\* emit_event(user_id, event).  The attribute event_id numbers the calls in
\* the order they run.  The queues are unbounded, so no put waits and the
\* call holds the user's lock from the first send to the last without
\* yielding: concurrent calls run one after the other, in any order.
EmitEvent ==
    /\ Len(emitted) < MaxEmits
    /\ \E ev \in TaskEvents, failing \in SUBSET ConnectionsOf(EmitUser) :
         LET u == EmitUser
             e == [user_id |-> u, event_type |-> ev.event_type,
                   metadata |-> ev.metadata, event_id |-> Len(emitted) + 1]
         IN /\ conns' = SendToAll(conns, connections_get(connections, u), e, failing)
            /\ emitted' = Append(emitted, e)
            /\ emit_result' = EmitResult(connections[u], failing)
    /\ UNCHANGED connections
    /\ UNCHANGED notSseVars

\* SseConnection.receive, called by the event stream of a registered
\* connection
Receive ==
    /\ \E c \in 1..Len(conns) :
         /\ Registered(c)
         /\ conns[c].queue # <<>>
         /\ conns' = [conns EXCEPT ![c].received = Append(@, Head(conns[c].queue)),
                                   ![c].queue = Tail(@)]
    /\ UNCHANGED <<connections, emitted, emit_result>>
    /\ UNCHANGED notSseVars

NextSse ==
    \/ RegisterConnection
    \/ UnregisterConnection
    \/ EmitEvent
    \/ Receive

SpecSse == Init /\ [][NextSse]_vars

---------------------------------------------------------------------------
(* Properties of the event bus *)

\* Everything that was put on the queue of connection c, in queue order
History(c) == conns[c].received \o conns[c].queue

\* The emit_event calls for the user of connection c that ran since c was
\* registered, in the order they ran
Segment(c) ==
    LET ForUser(e) == e.user_id = conns[c].user_id
    IN SelectSeq(SubSeq(emitted, conns[c].since + 1, Len(emitted)), ForUser)

\* The positions of Segment(c) whose send to c did not raise
SentTo(c) ==
    {i \in 1..Len(Segment(c)) : Segment(c)[i].event_id \notin conns[c].failed}

Delivered(c, e) ==
    \E i \in 1..Len(History(c)) : History(c)[i].event_id = e.event_id

\* C14: a connection accepts an event's type exactly when the type is in
\* its event_types, an absent event_types and an empty one both accepting
\* every type: a connection without metadata filters gets an event sent to it
\* iff event_types is absent, or empty, or holds the event's type.
C14_TypeFilter ==
    \A c \in RegisteredConnections : \A i \in SentTo(c) :
        LET f == conns[c].filter
            e == Segment(c)[i]
        IN f.metadata_filters = {} =>
              (Delivered(c, e) <=>
                  \/ ~f.has_event_types
                  \/ f.event_types = {}
                  \/ e.event_type \in f.event_types)

\* C15: an event sent to a connection is delivered iff its type passes the
\* type filter and, for every metadata filter key with a non-empty allowed
\* set, the event's metadata has a value for the key and the value is in the
\* set.
C15_MetadataFilter ==
    \A c \in RegisteredConnections : \A i \in SentTo(c) :
        LET f == conns[c].filter
            e == Segment(c)[i]
        IN Delivered(c, e) <=>
              /\ TypeAccepted(f, e)
              /\ \A p \in f.metadata_filters :
                    p[2] # {} =>
                       /\ MetadataGet(e.metadata, p[1]) # NULL
                       /\ MetadataGet(e.metadata, p[1]) \in p[2]

\* C16: whatever the order in which concurrent emit_event calls run, what a
\* registered connection has received followed by what waits in its queue is the
\* sequence of the events that matched its filter (and whose send did not
\* raise), in the order in which the calls ran, each exactly once.
C16_DeliveryInEmissionOrder ==
    \A c \in RegisteredConnections :
        LET Kept(e) == /\ matches(conns[c].filter, e)
                       /\ e.event_id \notin conns[c].failed
        IN History(c) = SelectSeq(Segment(c), Kept)

\* Two calls ran for a user with two connections: one connection has received
\* both events, the other only the one that matched its filter.
C16_Witness ==
    \E c \in RegisteredConnections, d \in RegisteredConnections :
        /\ conns[c].user_id = conns[d].user_id
        /\ conns[c].failed = {} /\ conns[d].failed = {}
        /\ Len(Segment(c)) = 2 /\ Len(Segment(d)) = 2
        /\ Len(conns[c].received) = 2
        /\ Len(conns[d].received) = 1 /\ conns[d].queue = <<>>

EmitRuns ==
    Len(emitted') = Len(emitted) + 1

\* C17: when an emit_event call runs and the send to some connections
\* raises, every other connection of the user whose filter matches has the
\* event appended to its queue, and the call returns without raising.
C17_SendErrorIsContained ==
    [][EmitRuns =>
          LET e == emitted'[Len(emitted')]
          IN /\ emit_result' = "returned"
             /\ \A c \in ConnectionsOf(e.user_id) :
                   IF e.event_id \notin conns'[c].failed /\ matches(conns[c].filter, e)
                   THEN conns'[c].queue = Append(conns[c].queue, e)
                   ELSE conns'[c].queue = conns[c].queue]_vars

\* The send to the first connection of a user raised and the second
\* connection of the user got the event.
C17_Witness ==
    \E c \in 1..Len(conns), d \in 1..Len(conns) :
        /\ c < d
        /\ conns[c].user_id = conns[d].user_id
        /\ \E i \in 1..Len(History(d)) :
              History(d)[i].event_id \in conns[c].failed

\* C11: in every reachable state a task's steps_generated flag is true
\* exactly when the task has at least one step row, whatever step list the
\* decomposer parsed, the empty array included.
C11_StepsGeneratedIffStepRows ==
    \A t \in TaskIds :
        tasks[t].steps_generated <=> (StepsOf(steps, t) # {})

CompletedSteps(t) ==
    {s \in StepsOf(steps, t) : steps[s].status = "completed"}

\* The plan of task t is one or more normal steps and every call made for it
\* so far has succeeded: no handler raised, and every step that has returned
\* is completed with a non-empty output.
AllStepsSucceed(t) ==
    /\ tasks[t].steps_generated
    /\ StepsOf(steps, t) # {}
    /\ tasks[t].status # "failed"
    /\ ~(pc = "except" /\ cur.task_id = t)
    /\ \A s \in StepsOf(steps, t) :
          /\ steps[s].step_type = "normal"
          /\ steps[s].status \in {"pending", "in_progress", "completed"}
          /\ steps[s].status = "completed" => steps[s].output \notin {NULL, ""}

ReevaluatePlanned(t, s0, s1) ==
    /\ steps[s0].task_id = t /\ steps[s1].task_id = t
    /\ steps[s0].step_type = "normal" /\ steps[s0].step_number = 0
    /\ steps[s0].status = "completed"
    /\ steps[s1].step_type = "reevaluate" /\ steps[s1].step_number = 1
    /\ steps[s1].is_planned

EventIndex(t, type) ==
    CHOOSE i \in 1..Len(events[t]) : events[t][i].event_type = type

\* C13: for a plan with a normal step S0 followed by a planned reevaluate
\* step S1, once S0 is completed S1 is activated through the work queue: as
\* long as S1 is pending its REEVALUATE item is in the queue or in the
\* handler.  task.steps_regenerated comes right after task.step_completed(S1),
\* and a task.completed comes after both.
C13_PlannedReevaluateIsActivated ==
    \A t \in TaskIds : \A s0 \in StepsOf(steps, t), s1 \in StepsOf(steps, t) :
        ReevaluatePlanned(t, s0, s1) =>
           /\ steps[s1].status = "pending" =>
                 \/ InQueue(REEVALUATE_TASK, s1)
                 \/ InHandler(REEVALUATE_TASK, s1)
           /\ HasEvent(t, "task.steps_regenerated") =>
                 LET i == EventIndex(t, "task.steps_regenerated")
                 IN /\ events[t][i - 1].event_type = "task.step_completed"
                    /\ events[t][i - 1].step_id = s1
           /\ HasEvent(t, "task.completed") =>
                 /\ HasEvent(t, "task.steps_regenerated")
                 /\ events[t][Len(events[t])].event_type = "task.completed"

---------------------------------------------------------------------------
(* The structured-output protocol of the LLM adapter
   (app/services/llm/llm_service.py).  Texts are TLA+ strings; positions
   are 1-based, and 0 stands for "not found" (Python's -1 and None). *)

StrMin(S) == CHOOSE x \in S : \A y \in S : x <= y

\* s[a-1:b] of Python with 1-based inclusive ends; "" when the range is empty
Slice(s, a, b) == IF a > b THEN "" ELSE SubSeq(s, a, b)

startswith_at(s, p, lit) ==
    /\ p >= 1
    /\ p + Len(lit) - 1 <= Len(s)
    /\ Slice(s, p, p + Len(lit) - 1) = lit

endswith(s, suffix) ==
    /\ Len(suffix) <= Len(s)
    /\ Slice(s, Len(s) - Len(suffix) + 1, Len(s)) = suffix

\* str.find from a position on: the least position of lit at or after `from'
find_from(s, lit, from) ==
    LET ps == {p \in from..(Len(s) - Len(lit) + 1) : startswith_at(s, p, lit)}
    IN IF ps = {} THEN 0 ELSE StrMin(ps)

find(s, lit) == find_from(s, lit, 1)

Whitespace == {" ", "\n", "\t"}

RECURSIVE lstrip(_)
lstrip(s) ==
    IF Len(s) > 0 /\ Slice(s, 1, 1) \in Whitespace
    THEN lstrip(Slice(s, 2, Len(s)))
    ELSE s

RECURSIVE rstrip(_)
rstrip(s) ==
    IF Len(s) > 0 /\ Slice(s, Len(s), Len(s)) \in Whitespace
    THEN rstrip(Slice(s, 1, Len(s) - 1))
    ELSE s

strip(s) == rstrip(lstrip(s))

\* The literals of the tag format <additional_data key=NAME>VALUE</additional_data>
OPEN_TAG_START == "<additional_data key="
OPEN_TAG_PREFIX == "<additional_data"
CLOSE_TAG == "</additional_data>"
CLOSE_TAG_PREFIX == "</additional_data"

\* A match of r'<additional_data key=([^>]+)>' that starts at p: the literal,
\* one or more characters other than '>', then the first '>' after them.
\* The result is the position of that '>', or 0 when nothing matches at p.
OpeningTagAt(s, p) ==
    IF ~startswith_at(s, p, OPEN_TAG_START) THEN 0
    ELSE LET k == p + Len(OPEN_TAG_START)
             gt == find_from(s, ">", k)
         IN IF gt > k THEN gt ELSE 0

\* re.search(r'<additional_data key=([^>]+)>', s): the leftmost match
\* [start, end (position of '>'), group 1], or start 0 when there is none
SearchOpeningTag(s) ==
    LET ps == {p \in 1..Len(s) : OpeningTagAt(s, p) > 0}
    IN IF ps = {} THEN [start |-> 0, end |-> 0, key |-> ""]
       ELSE LET p == StrMin(ps)
                gt == OpeningTagAt(s, p)
            IN [start |-> p, end |-> gt,
                key |-> Slice(s, p + Len(OPEN_TAG_START), gt - 1)]

StreamedChunk(content, additional_data_key) ==
    [content |-> content, additional_data_key |-> additional_data_key]

---------------------------------------------------------------------------
(* Non-streaming parse *)

\* A match of r'<additional_data key=([^>]+)>(.*?)</additional_data>' (DOTALL)
\* that starts at p: an opening tag at p and the first closing tag after it.
\* The result is the position of the last character of the match, or 0.
SegmentAt(s, p) ==
    LET gt == OpeningTagAt(s, p)
        close == IF gt = 0 THEN 0 ELSE find_from(s, CLOSE_TAG, gt + 1)
    IN IF close = 0 THEN 0 ELSE close + Len(CLOSE_TAG) - 1

\* re.findall / re.sub: the leftmost matches, none overlapping another,
\* as [start, end, key, value]
RECURSIVE FindAll(_, _)
FindAll(s, from) ==
    LET ps == {p \in from..Len(s) : SegmentAt(s, p) > 0}
    IN IF ps = {} THEN <<>>
       ELSE LET p == StrMin(ps)
                gt == OpeningTagAt(s, p)
                e == SegmentAt(s, p)
            IN <<[start |-> p, end |-> e,
                  key |-> Slice(s, p + Len(OPEN_TAG_START), gt - 1),
                  value |-> Slice(s, gt + 1, e - Len(CLOSE_TAG))]>>
               \o FindAll(s, e + 1)

\* re.sub(pattern, '', content): the text outside the matches
RemoveAll_KeepTags(s, ms, from) == Slice(s, from, Len(s))

RECURSIVE RemoveAll(_, _, _)
RemoveAll(s, ms, from) ==
    IF ms = <<>> THEN Slice(s, from, Len(s))
    ELSE Slice(s, from, Head(ms).start - 1)
         \o RemoveAll(s, Tail(ms), Head(ms).end + 1)

\* _parse_additional_data: the cleaned content and the dict key -> value,
\* a later segment of a key overwriting an earlier one
parse_additional_data(content) ==
    LET ms == FindAll(content, 1)
        keys == {strip(ms[i].key) : i \in 1..Len(ms)}
        last(k) == CHOOSE i \in 1..Len(ms) :
                       /\ strip(ms[i].key) = k
                       /\ \A j \in (i + 1)..Len(ms) : strip(ms[j].key) # k
    IN [cleaned_content |-> strip(RemoveAll(content, ms, 1)),
        additional_data |-> [k \in keys |-> strip(ms[last(k)].value)]]

---------------------------------------------------------------------------
(* Streaming parse *)

\* _find_safe_content_end: how much of the buffer is before a trailing
\* prefix of tag_prefix (the shortest such prefix is taken first)
find_safe_content_end(buf, tag_prefix) ==
    LET is == {i \in 1..(IF Len(tag_prefix) < Len(buf) THEN Len(tag_prefix) ELSE Len(buf)) :
                   endswith(buf, Slice(tag_prefix, 1, i))}
    IN IF is = {} THEN Len(buf) ELSE Len(buf) - StrMin(is)

\* _process_opening_tag_state: one pass over the buffer outside a tag
process_opening_tag_state(buf, name, content) ==
    LET match == SearchOpeningTag(buf)
        before_tag == Slice(buf, 1, match.start - 1)
        safe_end == find_safe_content_end(buf, OPEN_TAG_PREFIX)
    IN IF match.start > 0
       THEN [buffer |-> Slice(buf, match.end + 1, Len(buf)),
             in_tag |-> TRUE,
             current_tag_name |-> strip(match.key),
             tag_content |-> "",
             chunks_to_yield |-> IF before_tag # ""
                                 THEN <<StreamedChunk(before_tag, NULL)>>
                                 ELSE <<>>]
       ELSE IF safe_end > 0
       THEN [buffer |-> Slice(buf, safe_end + 1, Len(buf)),
             in_tag |-> FALSE,
             current_tag_name |-> name,
             tag_content |-> content,
             chunks_to_yield |-> <<StreamedChunk(Slice(buf, 1, safe_end), NULL)>>]
       ELSE [buffer |-> "",
             in_tag |-> FALSE,
             current_tag_name |-> name,
             tag_content |-> content,
             chunks_to_yield |-> IF buf # ""
                                 THEN <<StreamedChunk(buf, NULL)>>
                                 ELSE <<>>]

\* _process_closing_tag_state: one pass over the buffer inside a tag
process_closing_tag_state(buf, name, content) ==
    LET close_index == find(buf, CLOSE_TAG)
        safe_end == find_safe_content_end(buf, CLOSE_TAG_PREFIX)
    IN IF close_index # 0
       THEN [buffer |-> Slice(buf, close_index + Len(CLOSE_TAG), Len(buf)),
             in_tag |-> FALSE,
             current_tag_name |-> NULL,
             tag_content |-> "",
             chunks_to_yield |->
                 <<StreamedChunk(content \o Slice(buf, 1, close_index - 1), name)>>]
       ELSE IF safe_end > 0
       THEN [buffer |-> Slice(buf, safe_end + 1, Len(buf)),
             in_tag |-> TRUE,
             current_tag_name |-> name,
             tag_content |-> content \o Slice(buf, 1, safe_end),
             chunks_to_yield |-> <<>>]
       ELSE [buffer |-> "",
             in_tag |-> TRUE,
             current_tag_name |-> name,
             tag_content |-> content \o buf,
             chunks_to_yield |-> <<>>]

\* The loop `while buffer:' of get_completion_streamed: passes over the
\* buffer until it is empty; st.chunks_to_yield collects what the passes yield
RECURSIVE ProcessBuffer(_)
ProcessBuffer(st) ==
    IF st.buffer = "" THEN st
    ELSE LET r == IF ~st.in_tag
                  THEN process_opening_tag_state(st.buffer, st.current_tag_name,
                                                 st.tag_content)
                  ELSE process_closing_tag_state(st.buffer, st.current_tag_name,
                                                 st.tag_content)
         IN ProcessBuffer([r EXCEPT !.chunks_to_yield =
                                        st.chunks_to_yield \o r.chunks_to_yield])

\* The texts an upstream may send: the text of the spec's scenario, a text
\* without tags and a text whose tag is never closed
Texts ==
    { "Hello <additional_data key=a>v1</additional_data> world",
      "Hi",
      "x<additional_data key=a>v" }

\* get_completion_streamed is called and the upstream starts to answer
CallStreamed ==
    /\ stream_pc = "idle"
    /\ \E T \in Texts : upstream' = T
    /\ stream_pc' = "streaming"
    /\ buffer' = ""
    /\ in_tag' = FALSE
    /\ current_tag_name' = NULL
    /\ tag_content' = ""
    /\ UNCHANGED <<deltas, chunks>>
    /\ UNCHANGED notStreamVars

\* One round of `async for chunk in stream': a delta with the next n
\* characters arrives (the last delta the bound allows carries the rest)
ReceiveDelta ==
    /\ stream_pc = "streaming"
    /\ upstream # ""
    /\ Len(deltas) < MaxDeltas
    /\ \E n \in 1..Len(upstream) :
        /\ Len(deltas) = MaxDeltas - 1 => n = Len(upstream)
        /\ LET content == Slice(upstream, 1, n)
               st == ProcessBuffer([buffer |-> buffer \o content,
                                    in_tag |-> in_tag,
                                    current_tag_name |-> current_tag_name,
                                    tag_content |-> tag_content,
                                    chunks_to_yield |-> <<>>])
           IN /\ upstream' = Slice(upstream, n + 1, Len(upstream))
              /\ deltas' = Append(deltas, content)
              /\ buffer' = st.buffer
              /\ in_tag' = st.in_tag
              /\ current_tag_name' = st.current_tag_name
              /\ tag_content' = st.tag_content
              /\ chunks' = chunks \o st.chunks_to_yield
    /\ UNCHANGED stream_pc
    /\ UNCHANGED notStreamVars

\* The upstream ends: what is left in the buffer is yielded
StreamEnd ==
    /\ stream_pc = "streaming"
    /\ upstream = ""
    /\ stream_pc' = "finished"
    /\ chunks' = IF buffer = "" THEN chunks
                 ELSE IF in_tag
                 THEN Append(chunks, StreamedChunk(tag_content \o buffer,
                                                   current_tag_name))
                 ELSE Append(chunks, StreamedChunk(buffer, NULL))
    /\ UNCHANGED <<upstream, deltas, buffer, in_tag, current_tag_name, tag_content>>
    /\ UNCHANGED notStreamVars

NextStream ==
    \/ CallStreamed
    \/ ReceiveDelta
    \/ StreamEnd

SpecStream == Init /\ [][NextStream]_vars

---------------------------------------------------------------------------
(* Properties of the streaming parse *)

\* The text the upstream has delivered so far
RECURSIVE Concat(_)
Concat(ds) == IF ds = <<>> THEN "" ELSE Head(ds) \o Concat(Tail(ds))

StreamText == Concat(deltas)

contains(s, lit) == find(s, lit) # 0

TagLiterals == {OPEN_TAG_START, CLOSE_TAG}

\* A chunk's content holds tag markup: one of the literals in full, or the
\* beginning of one that the end of the chunk cuts off
HoldsTagMarkup(content) ==
    \E lit \in TagLiterals :
        \/ contains(content, lit)
        \/ \E i \in 1..(Len(lit) - 1) : endswith(content, Slice(lit, 1, i))

\* C18: for every partition of the upstream text into deltas, no yielded
\* chunk contains tag markup, whole or in part: no chunk's content holds the
\* literal `<additional_data key=' or `</additional_data>', and none ends
\* with the beginning of one of them (a tag split across chunks).
C18_TagIntegrity ==
    \A i \in 1..Len(chunks) : ~HoldsTagMarkup(chunks[i].content)

\* The contents of the chunks of one key, concatenated in the order yielded
RECURSIVE Grouped(_, _)
Grouped(cs, k) ==
    IF cs = <<>> THEN ""
    ELSE (IF Head(cs).additional_data_key = k THEN Head(cs).content ELSE "")
         \o Grouped(Tail(cs), k)

ChunkKeys(cs) == {cs[i].additional_data_key : i \in 1..Len(cs)} \ {NULL}

\* C19: for any text T and any partition of T into deltas, when the stream
\* has ended the contents of the chunks without a key, concatenated, are the
\* cleaned content of _parse_additional_data(T), the keys of the chunks are
\* the keys of its dict, and the contents of the chunks of each key,
\* concatenated, are that key's value.
C19_StreamEqualsParse ==
    stream_pc = "finished" =>
        LET parsed == parse_additional_data(StreamText)
        IN /\ Grouped(chunks, NULL) = parsed.cleaned_content
           /\ ChunkKeys(chunks) = DOMAIN parsed.additional_data
           /\ \A k \in DOMAIN parsed.additional_data :
                  Grouped(chunks, k) = parsed.additional_data[k]

\* The buffer keeps back the proper prefix of tag_prefix the text ends with
Withheld(tag_prefix) ==
    \A i \in 1..(Len(tag_prefix) - 1) :
        endswith(StreamText, Slice(tag_prefix, 1, i))
            => endswith(buffer, Slice(tag_prefix, 1, i))

\* C20: while the stream runs, a proper prefix of `<additional_data' at the
\* end of the text received outside a tag, or of `</additional_data' inside a
\* tag, is kept in the buffer and not yielded; and the deltas
\* "Hello <additional_d", "ata key=a>v1</additional_data> world" yield exactly
\* the chunks ("Hello ", no key), ("v1", key a), (" world", no key).
C20_PartialTagIsWithheld ==
    /\ (stream_pc = "streaming" /\ ~in_tag) => Withheld(OPEN_TAG_PREFIX)
    /\ (stream_pc = "streaming" /\ in_tag) => Withheld(CLOSE_TAG_PREFIX)
    /\ (/\ stream_pc = "finished"
        /\ deltas = <<"Hello <additional_d",
                      "ata key=a>v1</additional_data> world">>)
           => chunks = <<StreamedChunk("Hello ", NULL),
                         StreamedChunk("v1", "a"),
                         StreamedChunk(" world", NULL)>>

---------------------------------------------------------------------------
(* The non-streaming parse and the re-embedding of its result *)

\* One segment <additional_data key=NAME>VALUE</additional_data>
TagSegment(name, value) == OPEN_TAG_START \o name \o ">" \o value \o CLOSE_TAG

\* What the texts are made of: plain text, names as written between `key='
\* and `>', and values, with and without surrounding white space
PlainTexts == {"", "a<b> "}
TagNames == {"a", " b "}
TagValues == {"v", " w "}

\* The texts with exactly n well-formed tags, any plain text around them
RECURSIVE WithTags(_)
WithTags(n) ==
    IF n = 0 THEN PlainTexts
    ELSE {t \o TagSegment(k, v) \o p :
              t \in WithTags(n - 1), k \in TagNames, v \in TagValues,
              p \in PlainTexts}

AssistantTexts == UNION {WithTags(n) : n \in 0..MaxTags}

\* The segments of the keys of `order' whose place is position i
RECURSIVE SegmentsAt(_, _, _, _)
SegmentsAt(order, data, pos, i) ==
    IF order = <<>> THEN ""
    ELSE (IF pos[Head(order)] = i
          THEN TagSegment(Head(order), data[Head(order)])
          ELSE "")
         \o SegmentsAt(Tail(order), data, pos, i)

\* The cleaned content from position i on, with each key's segment put in
\* after pos[key] characters of the cleaned content
RECURSIVE Embed(_, _, _, _, _)
Embed(cleaned, data, order, pos, i) ==
    SegmentsAt(order, data, pos, i)
    \o (IF i >= Len(cleaned) THEN ""
        ELSE Slice(cleaned, i + 1, i + 1) \o Embed(cleaned, data, order, pos, i + 1))

\* The orders in which the keys of a dict can be written
Orders(keys) ==
    {o \in [1..Cardinality(keys) -> keys] :
         \A i, j \in 1..Cardinality(keys) : o[i] = o[j] => i = j}

\* _parse_additional_data is applied to an assistant text
ParseText ==
    /\ rt_pc = "idle"
    /\ \E T \in AssistantTexts :
        /\ rt_text' = T
        /\ rt_parsed' = parse_additional_data(T)
    /\ rt_pc' = "parsed"
    /\ UNCHANGED <<rt_embedded, rt_reparsed>>
    /\ UNCHANGED notParseVars

\* The segments of the parsed data are put back into the cleaned content,
\* each at any position, and the result is parsed
ReEmbed ==
    /\ rt_pc = "parsed"
    /\ LET cleaned == rt_parsed.cleaned_content
           data == rt_parsed.additional_data
       IN \E order \in Orders(DOMAIN data) :
          \E pos \in [DOMAIN data -> 0..Len(cleaned)] :
              /\ rt_embedded' = Embed(cleaned, data, order, pos, 0)
              /\ rt_reparsed' = parse_additional_data(rt_embedded')
    /\ rt_pc' = "reparsed"
    /\ UNCHANGED <<rt_text, rt_parsed>>
    /\ UNCHANGED notParseVars

NextParse ==
    \/ ParseText
    \/ ReEmbed

SpecParse == Init /\ [][NextParse]_vars

\* C21: for every assistant text with well-formed tags, putting the segments
\* of the parsed data back into the cleaned content, at any positions, gives
\* a text whose parse is the same cleaned content and the same data.
C21_ReEmbeddingRoundTrip ==
    rt_pc = "reparsed" => rt_reparsed = rt_parsed

\* Two keys put back inside a non-empty cleaned content
C21_Witness ==
    /\ rt_pc = "reparsed"
    /\ Cardinality(DOMAIN rt_parsed.additional_data) = 2
    /\ rt_parsed.cleaned_content = "a<b> a<b>"
    /\ rt_embedded # rt_text
    /\ ~startswith_at(rt_embedded, 1, "<")
    /\ ~endswith(rt_embedded, CLOSE_TAG)
    /\ rt_reparsed = rt_parsed

---------------------------------------------------------------------------
(* Completion stream service (app/services/completion_stream_service.py).
   A uuid4 is a value no earlier call has drawn; the completion id of the
   n-th call is modelled by n.  The event_id of an event, another uuid4, is
   left out. *)

completion_started(completion_id) ==
    [event_type |-> "completion.started",
     content |-> {},
     metadata |-> {<<"completion_id", completion_id>>}]

completion_chunk(completion_id, chunk) ==
    [event_type |-> "completion.chunk",
     content |-> {<<"content", chunk.content>>,
                  <<"additional_data_key", chunk.additional_data_key>>},
     metadata |-> {<<"completion_id", completion_id>>}]

completion_finished(completion_id) ==
    [event_type |-> "completion.finished",
     content |-> {},
     metadata |-> {<<"completion_id", completion_id>>}]

\* The chunks get_completion_streamed may yield
AdapterChunks == {StreamedChunk("Hello ", NULL), StreamedChunk("v1", "a")}

uuid4(n) == n + 1

\* stream_completion is called and runs to its first yield
StreamCompletion ==
    /\ Len(completions) < MaxCalls
    /\ LET completion_id == uuid4(Len(completions))
       IN completions' = Append(completions,
              [completion_id |-> completion_id,
               events |-> <<completion_started(completion_id)>>,
               adapter |-> <<>>,
               pc |-> "streaming"])
    /\ UNCHANGED notCompletionVars

\* One round of `async for chunk in get_completion_streamed(...)'
AdapterYields ==
    /\ \E i \in 1..Len(completions) : \E chunk \in AdapterChunks :
        /\ completions[i].pc = "streaming"
        /\ Len(completions[i].adapter) < MaxChunks
        /\ completions' = [completions EXCEPT
               ![i].adapter = Append(@, chunk),
               ![i].events = Append(@, completion_chunk(completions[i].completion_id,
                                                        chunk))]
    /\ UNCHANGED notCompletionVars

\* get_completion_streamed ends and stream_completion yields its last event
AdapterEnds ==
    /\ \E i \in 1..Len(completions) :
        /\ completions[i].pc = "streaming"
        /\ completions' = [completions EXCEPT
               ![i].events = Append(@, completion_finished(completions[i].completion_id)),
               ![i].pc = "finished"]
    /\ UNCHANGED notCompletionVars

\* get_completion_streamed raises (unknown model, reserved key, unsupported
\* file, upstream failure): the exception leaves stream_completion
AdapterRaises ==
    /\ \E i \in 1..Len(completions) :
        /\ completions[i].pc = "streaming"
        /\ completions' = [completions EXCEPT ![i].pc = "raised"]
    /\ UNCHANGED notCompletionVars

NextCompletion ==
    \/ StreamCompletion
    \/ AdapterYields
    \/ AdapterEnds
    \/ AdapterRaises

SpecCompletion == Init /\ [][NextCompletion]_vars

\* The events of the adapter chunks cs, in order
RECURSIVE ChunkEvents(_, _)
ChunkEvents(completion_id, cs) ==
    IF cs = <<>> THEN <<>>
    ELSE <<completion_chunk(completion_id, Head(cs))>>
         \o ChunkEvents(completion_id, Tail(cs))

\* C22: the event sequence of every stream_completion call that is over is
\* one completion.started, one completion.chunk per chunk of the adapter in
\* the adapter's order, and one completion.finished, all with the call's
\* completion id; and no two calls have the same completion id.
C22_CompletionEventSequence ==
    /\ \A i \in 1..Len(completions) :
           completions[i].pc # "streaming" =>
               completions[i].events =
                   <<completion_started(completions[i].completion_id)>>
                   \o ChunkEvents(completions[i].completion_id, completions[i].adapter)
                   \o <<completion_finished(completions[i].completion_id)>>
    /\ \A i, j \in 1..Len(completions) :
           completions[i].completion_id = completions[j].completion_id => i = j

---------------------------------------------------------------------------
(* Model selection (app/services/task_model_selection_service.py).
   Scores are whole numbers and costs are counted in hundredths. *)

\* The catalogue get_all_models returns: the properties of a ModelDescription
\* the selection reads
ModelList ==
    << [id |-> "text-only", input_modalities |-> {"text"},
        supports_reasoning |-> FALSE, supports_native_web_search |-> FALSE],
       [id |-> "vision", input_modalities |-> {"text", "image"},
        supports_reasoning |-> TRUE, supports_native_web_search |-> FALSE],
       [id |-> "web-vision", input_modalities |-> {"text", "image", "file"},
        supports_reasoning |-> FALSE, supports_native_web_search |-> TRUE],
       [id |-> "audio", input_modalities |-> {"text", "audio"},
        supports_reasoning |-> FALSE, supports_native_web_search |-> FALSE] >>

ContentTypes == {"image/png", "audio/mpeg", "application/pdf"}

ModelCapability == {"reasoning", "exa_search", "native_web_search",
                    "native_pdf_processing"}

Scores == {1, 2}
EstimatedCosts == {25, 100}

\* FileMetadata.get_required_modalities
get_required_modalities(content_type) ==
    IF startswith_at(content_type, 1, "image/") THEN {"image"}
    ELSE IF startswith_at(content_type, 1, "audio/") THEN {"audio"}
    ELSE IF startswith_at(content_type, 1, "video/") THEN {"video"}
    ELSE {}

\* _filter_by_input_modalities
filter_by_input_modalities(step, models) ==
    LET required_modalities ==
            UNION {get_required_modalities(ct) : ct \in step.content_types}
    IN SelectSeq(models, LAMBDA model :
                     \A modality \in required_modalities :
                         modality \in model.input_modalities)

filter_by_capability_KeepAll(models, capability) == models

\* _filter_by_capability
filter_by_capability(models, capability) ==
    CASE capability = "reasoning" ->
             SelectSeq(models, LAMBDA model : model.supports_reasoning)
      [] capability = "exa_search" -> models
      [] capability = "native_web_search" ->
             SelectSeq(models, LAMBDA model : model.supports_native_web_search)
      [] capability = "native_pdf_processing" ->
             SelectSeq(models, LAMBDA model : "file" \in model.input_modalities)
      [] OTHER -> models

\* The loop `for capability in step.required_capabilities'
RECURSIVE FilterByCapabilities(_, _)
FilterByCapabilities(models, capabilities) ==
    IF capabilities = {} THEN models
    ELSE LET capability == CHOOSE c \in capabilities : TRUE
         IN FilterByCapabilities(filter_by_capability(models, capability),
                                 capabilities \ {capability})

RECURSIVE SumOver(_, _)
SumOver(xs, i) == IF i > Len(xs) THEN 0 ELSE xs[i] + SumOver(xs, i + 1)

\* (x - mean) / std for the i-th of the numbers xs, 0 when std is 0.  With
\* d[j] = n * xs[j] - sum(xs) the value is sign(d[i]) * sqrt(n * d[i]^2 / sum
\* of d[j]^2); it is kept as that sign and that fraction.
Normalized(xs, i) ==
    LET n == Len(xs)
        d == [j \in 1..n |-> n * xs[j] - SumOver(xs, 1)]
        sq == SumOver([j \in 1..n |-> d[j] * d[j]], 1)
    IN IF sq = 0 THEN [sign |-> 0, num |-> 0, den |-> 1]
       ELSE [sign |-> IF d[i] > 0 THEN 1 ELSE IF d[i] < 0 THEN -1 ELSE 0,
             num |-> n * d[i] * d[i], den |-> sq]

\* sorted(entries, key=cost)[len(entries) // 2].estimated_cost
MedianCost(entries) ==
    LET n == Len(entries)
        below(c) == Cardinality({j \in 1..n : entries[j].estimated_cost < c})
        upto(c) == Cardinality({j \in 1..n : entries[j].estimated_cost <= c})
    IN CHOOSE c \in {entries[j].estimated_cost : j \in 1..n} :
           below(c) <= n \div 2 /\ n \div 2 < upto(c)

\* _normalize_scores_and_costs: the _NormalizedEntry objects (model_id, score,
\* cost) and the median cost
normalize_scores_and_costs(entries) ==
    [normalized_entries |->
         [i \in 1..Len(entries) |->
              [model_id |-> entries[i].model_id,
               score |-> Normalized([j \in 1..Len(entries) |-> entries[j].score], i),
               cost |-> Normalized([j \in 1..Len(entries) |-> entries[j].estimated_cost], i)]],
     median_cost |-> MedianCost(entries)]

Returned(model_id) == [kind |-> "returned", model_id |-> model_id, error |-> NULL]
Raised(error) == [kind |-> "raised", model_id |-> NULL, error |-> error]

\* The loop of _select_best_model: its first statement reads
\* normalized.estimated_cost, an attribute a _NormalizedEntry does not have,
\* so the first round raises AttributeError and the rest of the loop (the
\* cut-offs, the utility) never runs
SelectionLoop(normalized_entries, median_cost) ==
    IF "estimated_cost" \in DOMAIN normalized_entries[1]
    THEN Returned(normalized_entries[1].model_id)
    ELSE Raised("AttributeError")

\* _select_best_model
select_best_model(evaluations) ==
    IF evaluations = <<>> THEN Raised("TaskModelSelectionError")
    ELSE IF Len(evaluations) = 1 THEN Returned(evaluations[1].model_id)
    ELSE LET norm == normalize_scores_and_costs(evaluations)
         IN SelectionLoop(norm.normalized_entries, norm.median_cost)

\* select_model_for_step up to the call of the scoring service
SelectModelForStep ==
    /\ sel_pc = "idle"
    /\ \E cts \in SUBSET ContentTypes : \E caps \in SUBSET ModelCapability :
        LET step == [content_types |-> cts, required_capabilities |-> caps]
            models == FilterByCapabilities(
                          filter_by_input_modalities(step, ModelList), caps)
        IN /\ sel_step' = step
           /\ sel_models' = models
           /\ IF Len(models) = 0
              THEN /\ sel_pc' = "done"
                   /\ sel_outcome' = Raised("TaskModelSelectionError")
              ELSE /\ sel_pc' = "evaluating"
                   /\ UNCHANGED sel_outcome
    /\ UNCHANGED sel_evaluations
    /\ UNCHANGED notSelectVars

\* _evaluate_models returns one evaluation per model, and the best is chosen
EvaluateModelsReturn ==
    /\ sel_pc = "evaluating"
    /\ \E score \in [1..Len(sel_models) -> Scores] :
       \E cost \in [1..Len(sel_models) -> EstimatedCosts] :
           LET evaluations == [i \in 1..Len(sel_models) |->
                                   [model_id |-> sel_models[i].id,
                                    score |-> score[i],
                                    estimated_cost |-> cost[i]]]
           IN /\ sel_evaluations' = evaluations
              /\ sel_outcome' = select_best_model(evaluations)
    /\ sel_pc' = "done"
    /\ UNCHANGED <<sel_step, sel_models>>
    /\ UNCHANGED notSelectVars

\* The scoring service or the pricing service fails in _evaluate_models
EvaluateModelsRaise ==
    /\ sel_pc = "evaluating"
    /\ sel_outcome' = Raised("TaskModelSelectionError")
    /\ sel_pc' = "done"
    /\ UNCHANGED <<sel_step, sel_models, sel_evaluations>>
    /\ UNCHANGED notSelectVars

NextSelect ==
    \/ SelectModelForStep
    \/ EvaluateModelsReturn
    \/ EvaluateModelsRaise

SpecSelect == Init /\ [][NextSelect]_vars

ModelById(id) == CHOOSE i \in 1..Len(ModelList) : ModelList[i].id = id

\* C23: whenever select_model_for_step returns a model, the model is one of
\* the filtered candidates, its input_modalities hold every modality the
\* step's files require (image for an image file), and it supports native
\* web search when the step requires native_web_search.
C23_SelectedModelMeetsRequirements ==
    sel_outcome.kind = "returned" =>
        LET model == ModelList[ModelById(sel_outcome.model_id)]
        IN /\ \E i \in 1..Len(sel_models) : sel_models[i].id = sel_outcome.model_id
           /\ \A ct \in sel_step.content_types :
                  get_required_modalities(ct) \subseteq model.input_modalities
           /\ "native_web_search" \in sel_step.required_capabilities
                  => model.supports_native_web_search

\* A model is returned for a step with an image file that requires native
\* web search, from a catalogue in which other models fail each requirement
C23_Witness ==
    /\ sel_outcome.kind = "returned"
    /\ "image/png" \in sel_step.content_types
    /\ "native_web_search" \in sel_step.required_capabilities
    /\ "image" \in ModelList[ModelById(sel_outcome.model_id)].input_modalities
    /\ ModelList[ModelById(sel_outcome.model_id)].supports_native_web_search
    /\ \E i \in 1..Len(ModelList) : "image" \notin ModelList[i].input_modalities
    /\ \E i \in 1..Len(ModelList) : ~ModelList[i].supports_native_web_search

\* The candidates that pass the cut-off on the cost (the cut-off on the score,
\* two standard deviations under the mean, cannot act on fewer than six)
Survivors(evaluations) ==
    {i \in 1..Len(evaluations) :
         evaluations[i].estimated_cost <= 3 * MedianCost(evaluations)}

\* score_a / sqrt(cost_a + 0.01) >= score_b / sqrt(cost_b + 0.01), for
\* scores above 0 and costs in hundredths
UtilityAtLeast(a, b) ==
    a.score * a.score * (b.estimated_cost + 1)
        >= b.score * b.score * (a.estimated_cost + 1)

\* C24: when the selection runs on evaluated candidates it returns a survivor
\* of the cut-offs whose score / sqrt(cost + 0.01) is the greatest; and for
\* the two candidates (score 2, cost 1) and (score 1, cost 0.25) it returns
\* the second.
C24_BestUtilityIsSelected ==
    (sel_pc = "done" /\ sel_evaluations # <<>>) =>
        /\ sel_outcome.kind = "returned"
        /\ \E i \in Survivors(sel_evaluations) :
               /\ sel_evaluations[i].model_id = sel_outcome.model_id
               /\ \A j \in Survivors(sel_evaluations) :
                      UtilityAtLeast(sel_evaluations[i], sel_evaluations[j])
        /\ (/\ Len(sel_evaluations) = 2
            /\ sel_evaluations[1].score = 2 /\ sel_evaluations[1].estimated_cost = 100
            /\ sel_evaluations[2].score = 1 /\ sel_evaluations[2].estimated_cost = 25)
               => sel_outcome.model_id = sel_evaluations[2].model_id

---------------------------------------------------------------------------
(* Cost ledger (app/db/task_cost_repo.py) and the cost of a step
   (app/services/prompt_pricing_service.py).  Money is counted in units of
   1e-7 USD, so that a price per million tokens of 0.10 USD is 1 unit per
   token. *)

\* The pricing of the models a step may run on, as _parse_model_description
\* builds it from the upstream catalogue: prompt and completion prices are
\* taken as they come ("-1" per token is what the catalogue gives for a
\* router model), the request fee is kept only when it is above 0
PricedModels ==
    { [id |-> "google/gemini-2.5-flash-lite",
       prompt_per_million |-> 1, completion_per_million |-> 4, request |-> NULL],
      [id |-> "perplexity/sonar",
       prompt_per_million |-> 10, completion_per_million |-> 10, request |-> "fee"],
      [id |-> "openrouter/auto",
       prompt_per_million |-> -10000000, completion_per_million |-> -10000000,
       request |-> NULL] }

RequestFee == 50000

\* The token counts of the assistant message: both set, or not set
TokenCounts == { [set |-> TRUE, prompt_tokens |-> 100, completion_tokens |-> 50],
                 [set |-> FALSE, prompt_tokens |-> 0, completion_tokens |-> 0] }

\* _calculate_reasoning_cost + _calculate_web_search_cost: nothing, or the
\* price of five search results at 4 USD per thousand
ConfigCosts == {0, 200000}

Cost(value) == [raised |-> NULL, value |-> value]
CostError(error) == [raised |-> error, value |-> 0]

\* _calculate_file_costs: 0.0 without files; with files the function ends
\* without a return statement and gives None
calculate_file_costs(has_files) ==
    IF has_files THEN [is_none |-> TRUE, value |-> 0]
    ELSE [is_none |-> FALSE, value |-> 0]

\* _calculate_cost_internal
calculate_cost_internal(prompt_tokens, completion_tokens, has_files, config_cost, model_pricing) ==
    LET prompt_cost == prompt_tokens * model_pricing.prompt_per_million
        completion_cost == completion_tokens * model_pricing.completion_per_million
        request == IF model_pricing.request # NULL THEN RequestFee ELSE 0
        file_costs == calculate_file_costs(has_files)
    IN IF file_costs.is_none THEN CostError("TypeError")
       ELSE Cost(prompt_cost + completion_cost + request + file_costs.value
                 + config_cost)

\* calculate_cost
calculate_cost(model_pricing, llm_message, has_files, config_cost) ==
    IF ~llm_message.set THEN CostError("ValueError")
    ELSE calculate_cost_internal(llm_message.prompt_tokens,
                                 llm_message.completion_tokens,
                                 has_files, config_cost, model_pricing)

\* TaskCostRepo.add_cost_increment
add_cost_increment(table, task_id, cost_usd) ==
    Append(table, [task_id |-> task_id, cost_usd |-> cost_usd])

RECURSIVE SumCost(_, _)
SumCost(rows, task_id) ==
    IF rows = <<>> THEN 0
    ELSE (IF Head(rows).task_id = task_id THEN Head(rows).cost_usd ELSE 0)
         + SumCost(Tail(rows), task_id)

\* TaskCostRepo.get_total_cost: SELECT SUM(cost_usd), 0.0 when there is no row
get_total_cost(task_id) == SumCost(task_costs, task_id)

\* execute_step records the cost of its LLM call
TrackCost ==
    /\ Len(task_costs) < MaxIncrements
    /\ \E t \in 1..MaxTasks, model \in PricedModels, msg \in TokenCounts,
          has_files \in BOOLEAN, config_cost \in ConfigCosts :
        LET cost == calculate_cost(model, msg, has_files, config_cost)
        IN /\ cost.raised = NULL
           /\ task_costs' = add_cost_increment(task_costs, t, cost.value)
           /\ recorded' = Append(recorded, <<t, cost.value>>)
           /\ cost_error' = NULL
    /\ UNCHANGED notCostVars

\* calculate_cost raises: execute_step ends before add_cost_increment
TrackCostRaises ==
    /\ \E model \in PricedModels, msg \in TokenCounts,
          has_files \in BOOLEAN, config_cost \in ConfigCosts :
        LET cost == calculate_cost(model, msg, has_files, config_cost)
        IN /\ cost.raised # NULL
           /\ cost_error' = cost.raised
    /\ UNCHANGED <<task_costs, recorded>>
    /\ UNCHANGED notCostVars

NextCost ==
    \/ TrackCost
    \/ TrackCostRaises

SpecCost == Init /\ [][NextCost]_vars

RECURSIVE SumRecorded(_, _)
SumRecorded(calls, task_id) ==
    IF calls = <<>> THEN 0
    ELSE (IF Head(calls)[1] = task_id THEN Head(calls)[2] ELSE 0)
         + SumRecorded(Tail(calls), task_id)

---------------------------------------------------------------------------
(* Model cache (app/services/model_cache_service.py).  Time is counted in
   days. *)

\* CACHE_DURATION_SECONDS = 86400
CACHE_DURATION_DAYS == 1

\* _invalidate_cache_if_needed: the cache after the test of its age
invalidate_cache_if_needed(c, time) ==
    IF ~c.is_set THEN c
    ELSE IF time - c.timestamp >= CACHE_DURATION_DAYS THEN NoCache
    ELSE c

\* get_all_models (also through get_model_by_id) up to its first await: the
\* cache is tested and either answers or the fetch of the catalogue starts
GetAllModels ==
    /\ \E c \in 1..MaxCallers :
        /\ caller_pc[c] = "idle"
        /\ cache' = invalidate_cache_if_needed(cache, clock)
        /\ caller_pc' = [caller_pc EXCEPT ![c] =
               IF cache'.is_set THEN "returned" ELSE "fetching"]
    /\ UNCHANGED clock
    /\ UNCHANGED notCacheVars

\* _fetch_models_from_api returns and the cache is filled
FetchReturns ==
    /\ \E c \in 1..MaxCallers :
        /\ caller_pc[c] = "fetching"
        /\ cache' = [is_set |-> TRUE, timestamp |-> clock]
        /\ caller_pc' = [caller_pc EXCEPT ![c] = "returned"]
    /\ UNCHANGED clock
    /\ UNCHANGED notCacheVars

\* _fetch_models_from_api raises (raise_for_status, network error)
FetchRaises ==
    /\ \E c \in 1..MaxCallers :
        /\ caller_pc[c] = "fetching"
        /\ caller_pc' = [caller_pc EXCEPT ![c] = "raised"]
    /\ UNCHANGED <<cache, clock>>
    /\ UNCHANGED notCacheVars

\* The caller has its answer and may call again
CallerDone ==
    /\ \E c \in 1..MaxCallers :
        /\ caller_pc[c] \in {"returned", "raised"}
        /\ caller_pc' = [caller_pc EXCEPT ![c] = "idle"]
    /\ UNCHANGED <<cache, clock>>
    /\ UNCHANGED notCacheVars

\* A day passes
DayPasses ==
    /\ clock < MaxDays
    /\ clock' = clock + 1
    /\ UNCHANGED <<cache, caller_pc>>
    /\ UNCHANGED notCacheVars

NextCache ==
    \/ GetAllModels
    \/ FetchReturns
    \/ FetchRaises
    \/ CallerDone
    \/ DayPasses

SpecCache == Init /\ [][NextCache]_vars

FetchesInFlight == {c \in 1..MaxCallers : caller_pc[c] = "fetching"}

\* C26: whatever calls of get_all_models and get_model_by_id run at once,
\* with the cache empty or expired, at most one fetch of the upstream
\* catalogue is in flight.
C26_SingleFetchInFlight == Cardinality(FetchesInFlight) <= 1

---------------------------------------------------------------------------
(* Step numbers of one task *)

\* The rows of task_steps of task t that carry step_number n, abandoned rows
\* included
StepsNumbered(st, t, n) == {s \in StepsOf(st, t) : st[s].step_number = n}

\* C30: no two steps of one task have the same step_number, counting the
\* abandoned steps, the steps inserted by a reevaluation and the reevaluate
\* step synthesized after a could_not_complete step.
C30_StepNumbersUnique ==
    \A s \in StepIds(steps) :
        StepsNumbered(steps, steps[s].task_id, steps[s].step_number) = {s}

---------------------------------------------------------------------------
(* Order of the work items *)

\* The items a step puts on the queue
Enqueued == SubSeq(queue', Len(queue) + 1, Len(queue'))

\* The handler of the item in hand returns to the loop without raising
HandlerReturns ==
    /\ pc \in {"decompose_llm", "execute_llm", "reevaluate_llm"}
    /\ pc' = "idle"

\* item is the follow-up of the item in hand: an item of the same task, for
\* the first step after a decomposition, else for the step numbered one above
\* the step just handled; the item of a planned step follows an EXECUTE item
\* only when that item's step ended completed.
FollowsItemInHand(item) ==
    /\ item.task_id = cur.task_id
    /\ IF cur.item_type = DECOMPOSE_TASK
       THEN item.step_id \in FirstSteps(steps', get_steps_by_task_id(steps', item.task_id))
       ELSE steps'[item.step_id].step_number = steps'[cur.step_id].step_number + 1
    /\ (cur.item_type = EXECUTE_STEP /\ steps'[item.step_id].is_planned)
          => steps'[cur.step_id].status = "completed"

\* C27: work items are dispatched in the order in which they were enqueued
\* (the loop takes the oldest item, new items go behind the waiting ones), and
\* the item of a later step is enqueued only when the handler of the item of
\* the step before it has returned without raising.
C27_DispatchInEnqueueOrder ==
    [][/\ Len(queue') < Len(queue) => queue' = Tail(queue)
       /\ (cur' # cur /\ cur' # NoItem) =>
             (queue # <<>> /\ cur' = Head(queue) /\ queue' = Tail(queue))
       /\ Len(queue') >= Len(queue) => SubSeq(queue', 1, Len(queue)) = queue
       /\ \A i \in 1..Len(Enqueued) :
             Enqueued[i].step_id # 0 =>
                (HandlerReturns /\ FollowsItemInHand(Enqueued[i]))]_vars

\* An item of a later step waits behind an item of another task.
C27_Witness ==
    /\ Len(queue) >= 2
    /\ \E i \in 2..Len(queue) :
          /\ queue[i].step_id # 0
          /\ steps[queue[i].step_id].step_number > 0
          /\ queue[1].task_id # queue[i].task_id

---------------------------------------------------------------------------
(* WorkQueueService: start_processing, stop_processing and the loop tasks *)

\* Mutant: start_processing makes a loop task whether one is running or not.
AlreadyProcessing_Ignored(p) == FALSE

\* start_processing: `if self._processing: return'
AlreadyProcessing(p) == p

\* A loop task that has not ended
Alive(l) == loop_pc[l] \in {"created", "get", "handling"}

\* The top of the loop, run without suspension: `while self._processing',
\* then `await self._queue.get()', which returns at once when an item waits
\* and suspends the task otherwise.
LoopTop(l, p, n) ==
    IF ~p THEN /\ loop_pc' = [loop_pc EXCEPT ![l] = "ended"] /\ waiting' = n
    ELSE IF n > 0
    THEN /\ loop_pc' = [loop_pc EXCEPT ![l] = "handling"] /\ waiting' = n - 1
    ELSE /\ loop_pc' = [loop_pc EXCEPT ![l] = "get"] /\ waiting' = n

\* start_processing()
StartProcessing ==
    /\ \E l \in 1..MaxLoops :
          /\ loop_pc[l] = "none"
          /\ \A o \in 1..(l - 1) : loop_pc[o] # "none"
          /\ IF AlreadyProcessing(processing)
             THEN UNCHANGED <<processing, processing_task, loop_pc>>
             ELSE /\ processing' = TRUE
                  /\ loop_pc' = [loop_pc EXCEPT ![l] = "created"]
                  /\ processing_task' = l
    /\ UNCHANGED <<cancel_requested, waiting, stop_awaits>>
    /\ UNCHANGED notWorkerVars

\* stop_processing() up to `await self._processing_task': the flag is
\* cleared and the task is cancelled (cancel() of a task that has ended does
\* nothing).
StopProcessing ==
    /\ processing
    /\ processing_task # 0
    /\ processing' = FALSE
    /\ cancel_requested' = IF Alive(processing_task)
                           THEN cancel_requested \cup {processing_task}
                           ELSE cancel_requested
    /\ stop_awaits' = stop_awaits \cup {processing_task}
    /\ UNCHANGED <<processing_task, loop_pc, waiting>>
    /\ UNCHANGED notWorkerVars

\* The awaited task has ended: stop_processing swallows the CancelledError
\* and returns.
StopReturns ==
    /\ \E l \in stop_awaits :
          /\ loop_pc[l] = "ended"
          /\ stop_awaits' = stop_awaits \ {l}
    /\ UNCHANGED <<processing, processing_task, loop_pc, cancel_requested, waiting>>
    /\ UNCHANGED notWorkerVars

\* enqueue(item) from outside the loop (create_task)
EnqueueItem ==
    /\ waiting < MaxItems
    /\ waiting' = waiting + 1
    /\ UNCHANGED <<processing, processing_task, loop_pc, cancel_requested, stop_awaits>>
    /\ UNCHANGED notWorkerVars

\* A new loop task runs for the first time.
LoopStarts ==
    /\ \E l \in 1..MaxLoops :
          /\ loop_pc[l] = "created"
          /\ l \notin cancel_requested
          /\ LoopTop(l, processing, waiting)
    /\ UNCHANGED <<processing, processing_task, cancel_requested, stop_awaits>>
    /\ UNCHANGED notWorkerVars

\* A loop task suspended in `await self._queue.get()' is woken by a put and
\* takes the item; the handler runs up to its first suspension.
LoopTakes ==
    /\ \E l \in 1..MaxLoops :
          /\ loop_pc[l] = "get"
          /\ l \notin cancel_requested
          /\ waiting > 0
          /\ loop_pc' = [loop_pc EXCEPT ![l] = "handling"]
          /\ waiting' = waiting - 1
    /\ UNCHANGED <<processing, processing_task, cancel_requested, stop_awaits>>
    /\ UNCHANGED notWorkerVars

\* The handler of the item returns, with or without a follow-up item that
\* enqueue_many puts on the queue, or raises an Exception that the except
\* block handles; the loop goes back to its top.
LoopFinishesItem ==
    /\ \E l \in 1..MaxLoops, next_items \in {0, 1} :
          /\ loop_pc[l] = "handling"
          /\ l \notin cancel_requested
          /\ waiting + next_items <= MaxItems
          /\ LoopTop(l, processing, waiting + next_items)
    /\ UNCHANGED <<processing, processing_task, cancel_requested, stop_awaits>>
    /\ UNCHANGED notWorkerVars

\* A cancelled task runs again: CancelledError is raised at the await it is
\* suspended in (before its first step the task just ends).  It is not an
\* Exception, so the except block of the item does not catch it; `except
\* asyncio.CancelledError: break' ends the loop.
CancelDelivered ==
    /\ \E l \in cancel_requested :
          /\ Alive(l)
          /\ loop_pc' = [loop_pc EXCEPT ![l] = "ended"]
    /\ UNCHANGED <<processing, processing_task, cancel_requested, waiting, stop_awaits>>
    /\ UNCHANGED notWorkerVars

NextWorker ==
    \/ StartProcessing
    \/ StopProcessing
    \/ StopReturns
    \/ EnqueueItem
    \/ LoopStarts
    \/ LoopTakes
    \/ LoopFinishesItem
    \/ CancelDelivered

SpecWorker == Init /\ [][NextWorker]_vars

\* The loop tasks that can still take or handle items: made, not ended, and
\* not cancelled (a cancelled task only unwinds when it runs again)
RunningLoops == {l \in 1..MaxLoops : Alive(l) /\ l \notin cancel_requested}

\* The loop tasks with the handler of an item in progress
HandlingLoops == {l \in RunningLoops : loop_pc[l] = "handling"}

\* C28: whatever start_processing, stop_processing and enqueue calls are
\* made, at most one consumer loop is running and at most one work item is
\* being handled.
C28_OneItemAtATime ==
    /\ Cardinality(RunningLoops) <= 1
    /\ Cardinality(HandlingLoops) <= 1

\* start_processing was called after a stop_processing whose loop task has
\* not yet ended, and the new loop is handling an item.
C28_Witness ==
    /\ \E l \in cancel_requested : Alive(l)
    /\ HandlingLoops # {}
    /\ processing

---------------------------------------------------------------------------
(* SseService lock by lock: _get_user_lock, register_connection,
   unregister_connection, emit_event for one user.  The calls are coroutines
   of one event loop: a call runs without interruption until it suspends, and
   it suspends only where an await has to wait (a lock that is held, a queue
   that is full, _locks_lock when it is held). *)

Coroutines == 1..MaxCoroutines

\* Mutant: the connection queues hold one event (asyncio.Queue(maxsize=1)).
queue_full_MaxsizeOne(n) == n >= 1

\* asyncio.Queue(): maxsize 0, full() is always False and put() never waits
queue_full(n) == FALSE

ConnectionIds(list) == {list[i] : i \in 1..Len(list)}

\* [conn for conn in connections if conn.connection_id != connection.connection_id]
WithoutConnection(list, k) == SelectSeq(list, LAMBDA x : x # k)

\* The connections a call in flight holds a reference to
ReferencedConnections ==
    {co_conn[c] : c \in Coroutines} \cup UNION {ConnectionIds(co_todo[c]) : c \in Coroutines}

\* The calls inside `async with user_lock'
InSection(c) == co_pc[c] \in {"section", "put_wait", "del_acquire", "del_wait", "del_section", "release"}

\* A call of register_connection, unregister_connection or emit_event starts
\* (the event loop is between callbacks) and enters _get_user_lock.
Call ==
    /\ running = 0
    /\ \E c \in Coroutines, op \in {"register", "unregister", "emit"}, k \in 0..MaxRegistered :
          /\ co_pc[c] = "none"
          /\ \A o \in 1..(c - 1) : co_pc[o] # "none"
          /\ CASE op = "register" ->
                    /\ k # 0
                    /\ k \notin ConnectionIds(lk_connections) \cup ReferencedConnections
                    /\ \A o \in 1..(k - 1) :
                          o \in ConnectionIds(lk_connections) \cup ReferencedConnections
                    /\ lk_queued' = [lk_queued EXCEPT ![k] = 0]
               [] op = "unregister" ->
                    /\ k \in ConnectionIds(lk_connections)
                    /\ \A o \in Coroutines : ~(co_op[o] = "unregister" /\ co_conn[o] = k)
                    /\ UNCHANGED lk_queued
               [] op = "emit" ->
                    /\ k = 0
                    /\ \A o \in ConnectionIds(lk_connections) : lk_queued[o] < MaxQueued
                    /\ UNCHANGED lk_queued
          /\ user_locks = 0 => locks_made < MaxLocks
          /\ co_op' = [co_op EXCEPT ![c] = op]
          /\ co_conn' = [co_conn EXCEPT ![c] = k]
          /\ co_pc' = [co_pc EXCEPT ![c] = "map_acquire"]
          /\ running' = c
    /\ UNCHANGED <<co_lock, co_todo, user_locks, locks_made, lock_holder, lk_connections,
                   locks_lock>>
    /\ UNCHANGED notLockVars

\* `async with self._locks_lock', in _get_user_lock and in the clean-up of
\* unregister_connection: the call takes the lock when it is free and
\* suspends otherwise; a suspended call runs again when the lock is free.
AcquireLocksLock ==
    /\ \E c \in Coroutines :
          /\ \/ co_pc[c] \in {"map_acquire", "del_acquire"} /\ running = c
             \/ co_pc[c] \in {"map_wait", "del_wait"} /\ running = 0 /\ locks_lock = 0
          /\ IF locks_lock # 0
             THEN /\ co_pc' = [co_pc EXCEPT ![c] =
                                  IF @ = "map_acquire" THEN "map_wait" ELSE "del_wait"]
                  /\ running' = 0
                  /\ UNCHANGED locks_lock
             ELSE /\ locks_lock' = c
                  /\ co_pc' = [co_pc EXCEPT ![c] =
                                  IF @ \in {"map_acquire", "map_wait"}
                                  THEN "map_section" ELSE "del_section"]
                  /\ running' = c
    /\ UNCHANGED <<co_op, co_conn, co_lock, co_todo, user_locks, locks_made, lock_holder,
                   lk_connections, lk_queued>>
    /\ UNCHANGED notLockVars

\* _get_user_lock under _locks_lock: the user's lock is made when the map
\* has none, the lock of the map is returned and _locks_lock released.
GetUserLock ==
    /\ \E c \in Coroutines :
          /\ co_pc[c] = "map_section" /\ running = c
          /\ user_locks = 0 => locks_made < MaxLocks
          /\ locks_made' = IF user_locks = 0 THEN locks_made + 1 ELSE locks_made
          /\ user_locks' = IF user_locks = 0 THEN locks_made + 1 ELSE user_locks
          /\ co_lock' = [co_lock EXCEPT ![c] = user_locks']
          /\ co_pc' = [co_pc EXCEPT ![c] = "acquire"]
          /\ locks_lock' = 0
    /\ UNCHANGED <<co_op, co_conn, co_todo, lock_holder, lk_connections, lk_queued, running>>
    /\ UNCHANGED notLockVars

\* The lock is held, or calls that came before are waiting for it
MustWait(c) ==
    \/ lock_holder[co_lock[c]] # 0
    \/ \E o \in Coroutines \ {c} : co_pc[o] = "waiting" /\ co_lock[o] = co_lock[c]

\* `async with user_lock': Lock.acquire takes a free lock nobody waits for at
\* once and suspends the call otherwise; a waiting call runs again when the
\* lock is free.  emit_event reads the connection list on entry.
AcquireUserLock ==
    /\ \E c \in Coroutines :
          /\ \/ co_pc[c] = "acquire" /\ running = c
             \/ co_pc[c] = "waiting" /\ running = 0 /\ lock_holder[co_lock[c]] = 0
          /\ IF co_pc[c] = "acquire" /\ MustWait(c)
             THEN /\ co_pc' = [co_pc EXCEPT ![c] = "waiting"]
                  /\ running' = 0
                  /\ UNCHANGED <<lock_holder, co_todo>>
             ELSE /\ lock_holder' = [lock_holder EXCEPT ![co_lock[c]] = c]
                  /\ co_pc' = [co_pc EXCEPT ![c] = "section"]
                  /\ co_todo' = [co_todo EXCEPT ![c] =
                                    IF co_op[c] = "emit" THEN lk_connections ELSE <<>>]
                  /\ running' = c
    /\ UNCHANGED <<co_op, co_conn, co_lock, user_locks, locks_made, lk_connections, lk_queued,
                   locks_lock>>
    /\ UNCHANGED notLockVars

\* register_connection: self._connections[user_id].append(connection)
RegisterSection ==
    /\ \E c \in Coroutines :
          /\ co_pc[c] = "section" /\ co_op[c] = "register" /\ running = c
          /\ lk_connections' = Append(lk_connections, co_conn[c])
          /\ co_pc' = [co_pc EXCEPT ![c] = "release"]
    /\ UNCHANGED <<co_op, co_conn, co_lock, co_todo, user_locks, locks_made,
                   lock_holder, lk_queued, running, locks_lock>>
    /\ UNCHANGED notLockVars

\* unregister_connection: the connection is taken off the list; when the
\* list gets empty its entry is deleted and the call goes on to take
\* _locks_lock, still holding the user's lock.
UnregisterSection ==
    /\ \E c \in Coroutines :
          /\ co_pc[c] = "section" /\ co_op[c] = "unregister" /\ running = c
          /\ LET rest == WithoutConnection(lk_connections, co_conn[c])
             IN /\ lk_connections' = rest
                /\ co_pc' = [co_pc EXCEPT ![c] =
                                IF lk_connections # <<>> /\ rest = <<>>
                                THEN "del_acquire" ELSE "release"]
    /\ UNCHANGED <<co_op, co_conn, co_lock, co_todo, user_locks, locks_made, lock_holder,
                   lk_queued, running, locks_lock>>
    /\ UNCHANGED notLockVars

\* unregister_connection under _locks_lock: the user's entry of the lock map
\* is deleted and _locks_lock released.
DeleteUserLock ==
    /\ \E c \in Coroutines :
          /\ co_pc[c] = "del_section" /\ running = c
          /\ user_locks' = 0
          /\ co_pc' = [co_pc EXCEPT ![c] = "release"]
          /\ locks_lock' = 0
    /\ UNCHANGED <<co_op, co_conn, co_lock, co_todo, locks_made, lock_holder,
                   lk_connections, lk_queued, running>>
    /\ UNCHANGED notLockVars

\* emit_event: `await connection.send(event)' for the next connection;
\* Queue.put suspends the call while the queue is full.
EmitSend ==
    /\ \E c \in Coroutines :
          /\ co_op[c] = "emit"
          /\ co_todo[c] # <<>>
          /\ LET k == Head(co_todo[c])
             IN /\ \/ co_pc[c] = "section" /\ running = c
                   \/ co_pc[c] = "put_wait" /\ running = 0 /\ ~queue_full(lk_queued[k])
                /\ IF queue_full(lk_queued[k])
                   THEN /\ co_pc' = [co_pc EXCEPT ![c] = "put_wait"]
                        /\ running' = 0
                        /\ UNCHANGED <<co_todo, lk_queued>>
                   ELSE /\ lk_queued[k] < MaxQueued
                        /\ lk_queued' = [lk_queued EXCEPT ![k] = @ + 1]
                        /\ co_todo' = [co_todo EXCEPT ![c] = Tail(@)]
                        /\ co_pc' = [co_pc EXCEPT ![c] = "section"]
                        /\ running' = c
    /\ UNCHANGED <<co_op, co_conn, co_lock, user_locks, locks_made, lock_holder,
                   lk_connections, locks_lock>>
    /\ UNCHANGED notLockVars

\* The end of `async with user_lock': the lock is released and the call
\* returns.
ReleaseUserLock ==
    /\ \E c \in Coroutines :
          /\ running = c
          /\ \/ co_pc[c] = "release"
             \/ co_pc[c] = "section" /\ co_op[c] = "emit" /\ co_todo[c] = <<>>
          /\ lock_holder' = [lock_holder EXCEPT ![co_lock[c]] = 0]
          /\ co_pc' = [co_pc EXCEPT ![c] = "none"]
          /\ co_op' = [co_op EXCEPT ![c] = NULL]
          /\ co_conn' = [co_conn EXCEPT ![c] = 0]
          /\ co_lock' = [co_lock EXCEPT ![c] = 0]
          /\ co_todo' = [co_todo EXCEPT ![c] = <<>>]
          /\ running' = 0
    /\ UNCHANGED <<user_locks, locks_made, lk_connections, lk_queued, locks_lock>>
    /\ UNCHANGED notLockVars

\* SseConnection.receive by the stream of a connection: one event leaves the
\* queue.
ConnectionReceives ==
    /\ running = 0
    /\ \E k \in 1..MaxRegistered :
          /\ lk_queued[k] > 0
          /\ lk_queued' = [lk_queued EXCEPT ![k] = @ - 1]
    /\ UNCHANGED <<co_pc, co_op, co_conn, co_lock, co_todo, user_locks, locks_made,
                   lock_holder, lk_connections, running, locks_lock>>
    /\ UNCHANGED notLockVars

NextLock ==
    \/ Call
    \/ AcquireLocksLock
    \/ GetUserLock
    \/ AcquireUserLock
    \/ RegisterSection
    \/ UnregisterSection
    \/ DeleteUserLock
    \/ EmitSend
    \/ ReleaseUserLock
    \/ ConnectionReceives

SpecLock == Init /\ [][NextLock]_vars

\* C29: under any interleaving of register_connection, unregister_connection
\* and emit_event for one user, at most one call at a time is inside a
\* section guarded by a lock of that user, also after the user's lock was
\* deleted from the lock map.
C29_OneCallInSection == Cardinality({c \in Coroutines : InSection(c)}) <= 1

\* A call is inside the section under a lock made after the user's first
\* lock was deleted from the map, with a connection registered.
C29_Witness ==
    \E c \in Coroutines :
        /\ InSection(c)
        /\ co_lock[c] >= 2
        /\ lk_connections # <<>>

\* The event loop runs every call that is ready to run; nothing makes a
\* client start a call or read its queue.
FairSpecLock ==
    /\ SpecLock
    /\ WF_vars(AcquireLocksLock)
    /\ WF_vars(GetUserLock)
    /\ WF_vars(AcquireUserLock)
    /\ WF_vars(RegisterSection)
    /\ WF_vars(UnregisterSection)
    /\ WF_vars(DeleteUserLock)
    /\ WF_vars(EmitSend)
    /\ WF_vars(ReleaseUserLock)

\* C37: the event bus cannot deadlock: under any interleaving of
\* register_connection, unregister_connection and emit_event, every call in
\* flight eventually gets the lock of the lock map and the user's lock and
\* returns.
C37_EveryCallReturns == \A c \in Coroutines : (co_pc[c] # "none") ~> (co_pc[c] = "none")

\* unregister_connection holds the user's lock and _locks_lock at once, while
\* another connection's events are still queued.
C37_Witness ==
    \E c \in Coroutines :
        /\ co_pc[c] = "del_section"
        /\ lock_holder[co_lock[c]] = c
        /\ locks_lock = c
        /\ locks_made >= 2

---------------------------------------------------------------------------
(* Kind of the follow-up items *)

\* The kind of work item made for a step of the given type
KindFor(type) == IF type = "reevaluate" THEN REEVALUATE_TASK ELSE EXECUTE_STEP

\* C32: every follow-up work item (waiting or in the handler) has the kind
\* that matches the step it names: EXECUTE for a normal step, REEVALUATE for
\* a reevaluate step, the first step of a plan and the first regenerated step
\* included.
C32_ItemKindMatchesStepType ==
    /\ \A i \in 1..Len(queue) :
          queue[i].step_id # 0 =>
             queue[i].item_type = KindFor(steps[queue[i].step_id].step_type)
    /\ cur.step_id # 0 => cur.item_type = KindFor(steps[cur.step_id].step_type)

---------------------------------------------------------------------------
(* execute_step on a step that is not pending *)

\* enqueue(item) with an EXECUTE item for a step that has left pending (an
\* item delivered a second time, or made for an abandoned step): execute_step
\* is written for any item the queue hands it.
EnqueueExecuteAgain ==
    /\ pc = "idle"
    /\ queue = <<>>
    /\ \E s \in StepIds(steps) :
          /\ steps[s].status # "pending"
          /\ steps[s].step_type = "normal"
          /\ Len(events[steps[s].task_id]) <= MaxEventsBefore
          /\ queue' = Append(queue,
                         make_task_step_execution_item(tasks, steps[s].task_id, s))
    /\ UNCHANGED <<tasks, steps, pc, cur, exc, events>>
    /\ UNCHANGED otherVars

NextAgain ==
    \/ Next
    \/ EnqueueExecuteAgain

\* The program with EXECUTE items also enqueued for steps that are no longer
\* pending.
SpecAgain == Init /\ [][NextAgain]_vars

\* C34: execute_step runs a step only when it is pending: an EXECUTE item for
\* a step that is in_progress, completed, could_not_complete, failed or
\* abandoned causes no model selection, no LLM call and no change of the step.
C34_OnlyPendingStepsRun ==
    [][(/\ pc = "idle"
        /\ cur' # NoItem
        /\ cur'.item_type = EXECUTE_STEP
        /\ cur'.step_id # 0
        /\ steps[cur'.step_id].status # "pending")
          => (/\ pc' \notin {"execute_select", "execute_llm"}
              /\ steps'[cur'.step_id] = steps[cur'.step_id])]_vars

---------------------------------------------------------------------------
(* Completion of a task *)

\* The task's non-abandoned steps are all completed
AllCompleted(st, t) ==
    \A s \in get_steps_by_task_id(st, t) : st[s].status = "completed"

\* Task t goes to completed in this step
BecomesCompleted(t) ==
    /\ tasks[t].status # "completed"
    /\ tasks'[t].status = "completed"

\* C33: a task is set to completed only by the handler of one of its steps,
\* when no non-abandoned step comes after that step and every non-abandoned
\* step of the task is completed; and in every reachable state a completed
\* task has all its non-abandoned steps completed.
C33_CompletedOnlyWhenAllStepsCompleted ==
    /\ [](\A t \in TaskIds : tasks[t].status = "completed" => AllCompleted(steps, t))
    /\ [][\A t \in TaskIds :
            BecomesCompleted(t) =>
               /\ cur.task_id = t /\ cur.step_id # 0
               /\ AllCompleted(steps', t)
               /\ \A s \in get_steps_by_task_id(steps', t) :
                     steps'[s].step_number <= steps'[cur.step_id].step_number]_vars

\* A task is completed after a reevaluation abandoned one of its steps.
C33_Witness ==
    \E t \in TaskIds :
        /\ tasks[t].status = "completed"
        /\ \E s \in StepsOf(steps, t) : steps[s].status = "abandoned"

---------------------------------------------------------------------------
(* Termination of a task *)

\* C36: with the worker running and every LLM and scoring call returning or
\* raising, every task whose DECOMPOSE item was enqueued eventually reaches
\* status completed or failed, whatever plan the decomposer returns (the empty
\* plan included) and whatever the steps answer.
C36_EveryTaskTerminates ==
    \A t \in 1..MaxTasks :
        (Len(tasks) >= t)
           ~> (Len(tasks) >= t /\ tasks[t].status \in {"completed", "failed"})

---------------------------------------------------------------------------
(* Terminal events of a task *)

TerminalEventTypes == {"task.completed", "task.failed"}

\* The positions of the terminal events among the events of task t
TerminalEvents(t) ==
    {i \in 1..Len(events[t]) : events[t][i].event_type \in TerminalEventTypes}

\* C38: for every task at most one terminal event is emitted (task.completed
\* and task.failed never both, neither twice), and no event of the task
\* follows it.
C38_OneTerminalEventLast ==
    \A t \in TaskIds :
        /\ Cardinality(TerminalEvents(t)) <= 1
        /\ TerminalEvents(t) \subseteq {Len(events[t])}

\* A task has emitted task.failed after one of its steps emitted
\* task.step_completed, and another task has emitted task.completed.
C38_Witness ==
    \E t, o \in TaskIds :
        /\ HasEvent(t, "task.failed")
        /\ HasEvent(t, "task.step_completed")
        /\ HasEvent(o, "task.completed")

---------------------------------------------------------------------------
(* The text the streaming parser yields *)

\* The text s without its tag markup: every opening tag
\* <additional_data key=NAME> and every </additional_data> is taken out, what
\* stands between and around them is kept.
RECURSIVE StripMarkup(_)
StripMarkup(s) ==
    LET o == find(s, OPEN_TAG_START)
        c == find(s, CLOSE_TAG)
        gt == IF o = 0 THEN 0 ELSE find_from(s, ">", o)
    IN IF o # 0 /\ gt # 0 /\ (c = 0 \/ o < c)
       THEN Slice(s, 1, o - 1) \o StripMarkup(Slice(s, gt + 1, Len(s)))
       ELSE IF c # 0
       THEN Slice(s, 1, c - 1) \o StripMarkup(Slice(s, c + Len(CLOSE_TAG), Len(s)))
       ELSE s

\* The contents of the chunks yielded, in the order yielded
RECURSIVE Yielded(_)
Yielded(cs) == IF cs = <<>> THEN "" ELSE Head(cs).content \o Yielded(Tail(cs))

\* C39: the streaming parser loses no text: for every partition of the
\* stream into deltas, when the stream has ended the characters received
\* that are not tag markup have all been yielded, once each and in order,
\* the body of a tag that was opened and never closed included.
C39_NoTextLost ==
    stream_pc = "finished" => StripMarkup(Yielded(chunks)) = StripMarkup(StreamText)

---------------------------------------------------------------------------
(* Isolation of the users' events *)

\* C40: an event emitted with emit_event for user U is never put on the
\* queue of a connection registered for another user, whatever register,
\* unregister and emit calls are made.
C40_EventsIsolatedPerUser ==
    \A c \in 1..Len(conns) :
        \A i \in 1..Len(History(c)) : History(c)[i].user_id = conns[c].user_id

\* An event was emitted while a connection of another user was registered,
\* and a connection of the event's user got it.
C40_Witness ==
    \E c, o \in RegisteredConnections :
        /\ conns[c].user_id = EmitUser
        /\ conns[o].user_id # EmitUser
        /\ Len(emitted) > conns[o].since
        /\ History(c) # <<>>
---------------------------------------------------------------------------
(* The event stream of GET /sse/events: event_generator registers a
   connection, yields what the connection receives, and unregisters the
   connection in its finally clause. *)

\* Mutant: the connection is unregistered in the `except Exception' clause,
\* which CancelledError and GeneratorExit pass by.
finally_covers_ExceptionOnly(cause) == cause = "exception"

\* try / except Exception / finally: the finally clause runs however the
\* body is left
finally_covers(cause) == TRUE

\* The generator is started: register_connection, then the body runs to the
\* yield of connection.established.
GeneratorStarts ==
    /\ Len(conns) < MaxConns
    /\ \E u \in UserIds, f \in EventFilters :
         /\ conns' = Append(conns, SseConnection(u, f, Len(emitted)))
         /\ connections' = [connections EXCEPT ![u] = Append(@, Len(conns) + 1)]
    /\ gen_pc' = Append(gen_pc, "established")
    /\ UNCHANGED <<emitted, emit_result>>
    /\ UNCHANGED notGeneratorVars

\* The response asks for the next chunk: the generator goes on from its
\* yield to `await connection.receive()'.
GeneratorResumed ==
    /\ \E c \in 1..Len(gen_pc) :
         /\ gen_pc[c] \in {"established", "yielded"}
         /\ gen_pc' = [gen_pc EXCEPT ![c] = "receive"]
    /\ UNCHANGED sseVars
    /\ UNCHANGED notGeneratorVars

\* connection.receive() returns the next event of the queue and the
\* generator yields it.
GeneratorReceives ==
    /\ \E c \in 1..Len(gen_pc) :
         /\ gen_pc[c] = "receive"
         /\ conns[c].queue # <<>>
         /\ conns' = [conns EXCEPT ![c].received = Append(@, Head(conns[c].queue)),
                                   ![c].queue = Tail(@)]
         /\ gen_pc' = [gen_pc EXCEPT ![c] = "yielded"]
    /\ UNCHANGED <<connections, emitted, emit_result>>
    /\ UNCHANGED notGeneratorVars

\* The stream ends: the client disconnects (CancelledError at the await, or
\* GeneratorExit at a yield when the generator is closed), or the body raises
\* an Exception.
StreamEnds ==
    /\ \E c \in 1..Len(gen_pc), cause \in {"disconnect", "exception"} :
         /\ gen_pc[c] \in {"established", "receive", "yielded"}
         /\ cause = "exception" => gen_pc[c] = "receive"
         /\ gen_pc' = [gen_pc EXCEPT ![c] = IF finally_covers(cause) THEN "ended" ELSE "done"]
    /\ UNCHANGED sseVars
    /\ UNCHANGED notGeneratorVars

\* finally: await sse_service.unregister_connection(connection)
GeneratorFinally ==
    /\ \E c \in 1..Len(gen_pc) :
         /\ gen_pc[c] = "ended"
         /\ LET Other(x) == x # c
            IN connections' = [connections EXCEPT
                                  ![conns[c].user_id] = SelectSeq(@, Other)]
         /\ gen_pc' = [gen_pc EXCEPT ![c] = "done"]
    /\ UNCHANGED <<conns, emitted, emit_result>>
    /\ UNCHANGED notGeneratorVars

NextGenerator ==
    \/ GeneratorStarts
    \/ GeneratorResumed
    \/ GeneratorReceives
    \/ StreamEnds
    \/ GeneratorFinally
    \/ EmitEvent

SpecGenerator == Init /\ [][NextGenerator]_vars

\* A generator that was left runs its finally clause.
FairSpecGenerator == SpecGenerator /\ WF_vars(GeneratorFinally)

\* C35: every connection the event stream registered is unregistered after
\* the stream ended, by a disconnect or by an exception; once the generator
\* is done the connection is in no user's list and nothing is put on its
\* queue any more.
C35_StreamEndUnregisters ==
    /\ \A c \in 1..MaxConns :
          (Len(gen_pc) >= c /\ gen_pc[c] = "ended") ~> (Len(gen_pc) >= c /\ gen_pc[c] = "done")
    /\ [](\A c \in 1..Len(gen_pc) :
             gen_pc[c] = "done" => \A u \in UserIds : c \notin ConnectionsOf(u))
    /\ [][\A c \in 1..Len(gen_pc) :
             gen_pc[c] = "done" => History(c)' = History(c)]_vars

\* A stream has ended and its connection is unregistered; an event the
\* connection's filter accepts was emitted for its user afterwards and is not
\* on its queue.
C35_Witness ==
    \E c \in 1..Len(gen_pc), i \in 1..Len(emitted) :
        /\ gen_pc[c] = "done"
        /\ conns[c].user_id = emitted[i].user_id
        /\ i > conns[c].since
        /\ matches(conns[c].filter, emitted[i])
        /\ emitted[i].event_id \notin conns[c].failed
        /\ \A j \in 1..Len(History(c)) : History(c)[j] # emitted[i]
---------------------------------------------------------------------------
(* TaskRepo.update_task_after_steps_generation statement by statement.
   Database.execute_update opens a connection, executes one statement and
   commits it, so every statement is a transaction of its own; a statement
   that raises leaves what the statements before it committed. *)

\* update_task_after_steps_generation(task_id, title, steps) is called for a
\* task that is decomposing.
PersistCall ==
    /\ persist_pc = "idle"
    /\ \E plan \in PlansUpTo(MaxPlan) : persist_plan' = plan
    /\ persist_pc' = "update"
    /\ UNCHANGED <<db_task, db_steps>>
    /\ UNCHANGED notPersistVars

\* execute_update: UPDATE tasks SET title, status, steps_generated; commit
PersistUpdate ==
    /\ persist_pc = "update"
    /\ db_task' = TaskAfterStepsGeneration(<<db_task>>, 1)[1]
    /\ persist_pc' = "insert"
    /\ UNCHANGED <<db_steps, persist_plan>>
    /\ UNCHANGED notPersistVars

\* execute_update: INSERT INTO task_steps for the next step definition; commit
PersistInsert ==
    /\ persist_pc = "insert"
    /\ Len(db_steps) < Len(persist_plan)
    /\ db_steps' = InsertRows(db_steps, 1, Len(db_steps),
                              <<persist_plan[Len(db_steps) + 1]>>)
    /\ UNCHANGED <<db_task, persist_plan, persist_pc>>
    /\ UNCHANGED notPersistVars

\* After the last INSERT the task row is read back and returned.
PersistReturn ==
    /\ persist_pc = "insert"
    /\ Len(db_steps) = Len(persist_plan)
    /\ persist_pc' = "returned"
    /\ UNCHANGED <<db_task, db_steps, persist_plan>>
    /\ UNCHANGED notPersistVars

\* A statement raises (sqlite3.Error, or _serialize_step_details for the
\* step at hand): its own transaction is rolled back and the call ends.
PersistRaises ==
    /\ persist_pc \in {"update", "insert"}
    /\ persist_pc' = "raised"
    /\ UNCHANGED <<db_task, db_steps, persist_plan>>
    /\ UNCHANGED notPersistVars

NextPersist ==
    \/ PersistCall
    \/ PersistUpdate
    \/ PersistInsert
    \/ PersistReturn
    \/ PersistRaises

SpecPersist == Init /\ [][NextPersist]_vars

\* C31: persisting a decomposition is atomic: in every committed state,
\* whether a reader sees it or a failure leaves it, the task either still
\* has no title, status decomposing and no step rows, or it has the title,
\* status in_progress, steps_generated true and all step rows of the plan.
C31_DecompositionPersistedAtomically ==
    \/ /\ db_task.title = NULL
       /\ db_task.status = "decomposing"
       /\ db_steps = <<>>
    \/ /\ db_task.title = SET
       /\ db_task.status = "in_progress"
       /\ db_task.steps_generated
       /\ db_steps = StepsAfterStepsGeneration(<<>>, 1, persist_plan)

====
